CONSTANTS
    Users = {"al", "bo"}
    Server = "server"
    BotNick = "ft_bot"
    ChatMarks = {{"433"}}
    ToServerCap = 1
    ToBotCap = 2
    MaxEvents = 1
SPECIFICATION Spec
INVARIANT NeverFooled
CHECK_DEADLOCK FALSE
