\* The conference (a terminal, a browser, two rooms, queues of one line), a
\* stream of three units for each decoder, file transfers of up to two blocks, two
\* frames to transmit with each kind of PTT, and five minutes of the scheduler.
SPECIFICATION ServicesFairSpec
CONSTANTS
  Terminals = {"s1"}
  Browsers = {"b1"}
  Rooms = {"CONF", "TECH"}
  Depth = 1
  MaxClients = 1
  MaxEntries = 2
  MaxSaid = 2
  Decoders = {"telnet", "ax25 CR", "ax25 LF", "ax25 CRLF", "kiss", "host", "hdlc"}
  MaxUnits = 3
  Sizes = {0, 1, 2}
  MaxDamages = 2
  Controls = {"rts", "gpio", "hid"}
  MaxFrames = 2
  MaxFailures = 2
  Neighbours = {1, 2}
  Ticks = 2
  MinutesPerHour = 2
  HoursPerDay = 2
  Expressions <- Examples
  MaxMinutes = 5
  MaxLate = 1
  Parts = {"conference", "streams", "yapp", "transmitter", "schedule"}
INVARIANTS
  ServicesTypeOK
  ListsTellWhoIsThere
  HeardInOrder
  ReadAsSent
  StoredWholeAndAgreed
  TransferMoves
  TransmitterReleased
  CalledWhenDue
PROPERTIES
  GoneIsForgotten
\* Streams, transfers, the link and the minutes come to their end.
CHECK_DEADLOCK FALSE
