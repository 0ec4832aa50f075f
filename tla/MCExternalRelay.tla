-------------------------- MODULE MCExternalRelay --------------------------
(***************************************************************************)
(* A site with a page of two pieces and an empty file, and peers with the  *)
(* smallest vocabularies that meet every branch.                           *)
(***************************************************************************)
EXTENDS ExternalRelay

SiteChunks == [page |-> 2, empty |-> 0]

Text(method, path, cred, keep) ==
  [k |-> "text", method |-> method, path |-> path, cred |-> cred, keep |-> keep]
Ask(sid, method, path, cred) ==
  [k |-> "frame", type |-> "HEADERS", sid |-> sid, method |-> method, path |-> path,
   cred |-> cred]
Frame(type, sid) == [k |-> "frame", type |-> type, sid |-> sid]
Shake(method, connection) ==
  [k |-> "hand", method |-> method, connection |-> connection, complete |-> TRUE]
Message(op, len) == [k |-> "ws", op |-> op, len |-> len]

PeerVocabulary ==
  [text |->
     {Text("GET", "page", "none", TRUE), Text("GET", "page", "good", TRUE),
      Text("HEAD", "page", "bad", TRUE), Text("GET", "missing", "none", TRUE),
      Text("GET", "dir", "none", FALSE), Text("GET", "locked", "good", FALSE),
      Text("FORM", "page", "none", TRUE), Text("POST", "page", "none", TRUE),
      Text("POST", "shutdown", "none", TRUE), Text("GET", "garbled", "none", TRUE)},
   http2 |->
     {Frame("SETTINGS", 0), Frame("PRIORITY", 1), Frame("OTHER", 0),
      Ask(1, "GET", "page", "none"), Ask(3, "GET", "page", "good"),
      Ask(3, "GET", "shutdown", "none"), Ask(1, "GET", "empty", "none"),
      Ask(3, "GET", "garbled", "none")},
   websocket |->
     {Shake("GET", "other"), Shake("GET", "none"),
      Message("text", 0), Message("text", 125), Message("binary", 126),
      Message("text", 4088), Message("text", 4089), Message("binary", 65536),
      Message("ping", 0), Message("close", 0)},
   external |-> {[k |-> "text"], [k |-> "frame"]}]

PeerItems == [text |-> 3, http2 |-> 4, websocket |-> 3, external |-> 4]

=============================================================================
