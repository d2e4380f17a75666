--------------------------------- MODULE Wire ---------------------------------
(***************************************************************************)
(* What becomes of a message on its way: Envelope.encode, decode and reply *)
(* (protocol/envelope.py), and to_dict and from_dict of the task that is   *)
(* posted, queued and polled (protocol/task.py).                           *)
(***************************************************************************)
EXTENDS Naturals

-----------------------------------------------------------------------------
(* Envelopes.  A payload is none, text, bytes or an object, which may hold *)
(* bytes or times (objects JSON has no form for).  b64 is the text bytes   *)
(* are turned into.  A host has msgpack or not.                            *)

Payload == [kind : {"none", "text", "bytes"}, holds : {{}}]
             \cup [kind : {"object"}, holds : SUBSET {"bytes", "time"}]
Envelope == [id : {1, 2}, reply_to : 0 .. 2, trace : {1, 2},
             encoding : {"json", "msgpack"}, payload : Payload]

Refused == [id |-> 0]  \* ImportError, or TypeError

(* json.dumps(default=str) makes text of what it has no form for.          *)
Form(e, payload) ==
  IF e.encoding = "json" THEN [payload EXCEPT !.holds = {}] ELSE payload

(* With _payload_b64, so that the text of bytes is told from other text.   *)
Packed(e) ==
  [e EXCEPT !.payload = [kind |-> IF e.payload.kind = "bytes" THEN "b64"
                                  ELSE e.payload.kind,
                         holds |-> Form(e, e.payload).holds,
                         marked |-> e.payload.kind = "bytes"]]

Unpackable(e, msgpack) ==
  e.encoding = "msgpack" /\ (~msgpack \/ "time" \in e.payload.holds)

Encode(e, msgpack) ==
  IF Unpackable(e, msgpack) THEN Refused ELSE Packed(e)

(* A message that is not JSON is taken for msgpack.                        *)
Decode(raw, msgpack) ==
  IF raw = Refused \/ (raw.encoding = "msgpack" /\ ~msgpack) THEN Refused
  ELSE [raw EXCEPT
          !.payload = [kind  |-> IF @.marked THEN "bytes" ELSE @.kind,
                       holds |-> @.holds]]

Reply(e, id, payload) ==
  [e EXCEPT !.id = id, !.reply_to = e.id, !.payload = payload]

(* A payload arrives as it was sent, but for what JSON has no form for in  *)
(* it; and whoever could send a request can read the answer, which is to   *)
(* it and under its trace.                                                 *)
EnvelopeArrives(e, client, server, answer) ==
  LET got == Decode(Encode(e, client), server)
      back == Decode(Encode(Reply(got, 2, answer), server), client)
  IN  got # Refused =>
        /\ got = [e EXCEPT !.payload = Form(e, @)]
        /\ answer.holds = {} =>
             /\ back.reply_to = e.id /\ back.trace = e.trace
             /\ back.payload = answer

-----------------------------------------------------------------------------
(* Tasks.  Of the value of a field only its JSON type counts, whether it   *)
(* is false to Python and, of a text or list, whether it reads as a number *)
(* or as the pairs of a dict.                                              *)

Kinds == {"absent", "null", "text", "digits", "number", "zero", "bool",
          "list", "pairs", "empty_list", "dict", "empty_dict"}

(* One field for each way of reading it.                                   *)
Fields == {"task_id", "timeframe", "symbols", "params", "fee_models",
           "priority", "initial_cash", "allow_short", "created_at"}

Usual == [task_id |-> "text", timeframe |-> "text", symbols |-> "list",
          params |-> "dict", fee_models |-> "null", priority |-> "number",
          initial_cash |-> "number", allow_short |-> "bool", created_at |-> "text"]

False == {"absent", "null", "zero", "empty_list", "empty_dict"}

(* from_dict, which sees no datetime: time stands for one.                 *)
Read(field, kind) ==
  CASE field = "task_id" -> IF kind = "absent" THEN "error" ELSE kind
    [] field = "timeframe" -> IF kind = "absent" THEN "text" ELSE kind
    [] field = "symbols" ->  \* list(...)
         CASE kind \in {"absent", "empty_list", "empty_dict"} -> "empty_list"
           [] kind \in {"text", "digits", "list", "dict"} -> "list"
           [] kind = "pairs" -> kind
           [] OTHER -> "error"
    [] field = "params" ->   \* dict(... or {})
         CASE kind \in False -> "empty_dict"
           [] kind \in {"dict", "pairs"} -> "dict"
           [] OTHER -> "error"
    [] field = "fee_models" ->  \* list(...) if ... else None
         CASE kind \in False -> "null"
           [] kind \in {"text", "digits", "list", "dict"} -> "list"
           [] kind = "pairs" -> kind
           [] OTHER -> "error"
    [] field = "priority" ->  \* int(...)
         CASE kind = "absent" -> "zero"
           [] kind \in {"digits", "bool", "number"} -> "number"
           [] kind = "zero" -> kind
           [] OTHER -> "error"
    [] field = "initial_cash" ->  \* float(...)
         CASE kind \in {"absent", "digits", "bool", "number"} -> "number"
           [] kind = "zero" -> kind
           [] OTHER -> "error"
    [] field = "allow_short" -> "bool"
    [] field = "created_at" ->
         IF kind \in {"absent", "null", "text", "digits"} THEN "time" ELSE kind

FromDict(dict) == [field \in Fields |-> Read(field, dict[field])]

Accepted(spec) == \A field \in Fields : spec[field] # "error"

Write_Listed(field, kind) ==  \* mutant: list(self.fee_models)
  IF field = "fee_models" /\ kind = "null" THEN "error"
  ELSE IF field = "created_at" THEN "text" ELSE kind

(* to_dict: created_at.isoformat() if created_at else None                 *)
Write(field, kind) ==
  IF field # "created_at" THEN kind
  ELSE IF kind = "time" THEN "text"
  ELSE IF kind \in False THEN "null" ELSE "error"

ToDict(spec) == [field \in Fields |-> Write(field, spec[field])]

(* A task that submit took from a client, whatever its JSON, can be queued *)
(* and given to a worker, and is the same task there: nothing is refused   *)
(* or changed after the submission.  (Not so when created_at is neither    *)
(* text nor null: from_dict lets it pass and to_dict raises.)              *)
TaskArrives(dict) ==
  LET spec == FromDict(dict)
  IN  Accepted(spec) /\ spec["created_at"] = "time" =>
        Accepted(ToDict(spec)) /\ FromDict(ToDict(spec)) = spec
=============================================================================
