SPECIFICATION ReceiverSpec
CONSTANTS
    MaxSms = 3
    Writes = 2
    EventsPerRead = 8
PROPERTIES
    AllTextMessagesParsed
