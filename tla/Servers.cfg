\* Each component of MCServers on a small instance: three connections of which
\* two are served at a time, two requests, two senders on a websocket, two requests
\* of a client, two responses with cookies.
CONSTANTS
  c1 = c1
  c2 = c2
  c3 = c3
  Conns = {c1, c2, c3}
  s1 = s1
  s2 = s2
  Senders = {s1, s2}
  Handler = Handler
  Absent = Absent
  None = None
  Off = Off
SPECIFICATION Spec
INVARIANTS WsgiExact WebSocketExact HttpExact CookiesExact
PROPERTIES ServersEnd
CHECK_DEADLOCK FALSE
