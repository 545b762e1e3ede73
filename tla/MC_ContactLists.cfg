SPECIFICATION StartedSpec
CONSTANTS
  web = web  irc = irc
  Users = {web, irc}
  Browsers = {web}
  Nicks = {1, 2}
  Superior <- IrcAboveWeb
  Hidden <- WebHidesIrc
  None = None
  MaxInputs = 2
CHECK_DEADLOCK FALSE
INVARIANTS TypeOK ListsExact
