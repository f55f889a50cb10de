---------------------------- MODULE RequestClient ----------------------------
(***************************************************************************)
(* base::fRequestValueSetting (base/slowcontrol.cpp): a client inserts a   *)
(* request and waits for the notification of its answer.  What the daemon  *)
(* does with the request is the subject of module WriteRequests; here it   *)
(* updates the row, once or twice, and the rule setvalue_update_notify     *)
(* (database.sql) sends the uid to everybody who listens.                  *)
(*                                                                         *)
(* A notification is first on the socket, which poll sees, and then in the *)
(* queue of libpq, which PQnotifies empties.  PQconsumeInput moves it from *)
(* one to the other, and so does the reading of a result: a statement is   *)
(* executed by the server in one step and answered in another.             *)
(***************************************************************************)
EXTENDS Naturals, Sequences

CONSTANTS Client,   \* each with one request
          Request,  \* these, and those of rules and of the website
          Uid       \* the uid each wants to set, perhaps the same

ClientAssumption == Client # {} /\ Client \subseteq Request /\ DOMAIN Uid = Request

VARIABLES pc,       \* what each client does next
          row,      \* the row of each request: "none", "new", "scheduled" or "done"
          socket,   \* per client, notifications nobody has read
          queue,    \* per client, those read and not yet asked for
          answered  \* per client, the result of its SELECT was not null

vars == <<pc, row, socket, queue, answered>>

Init == /\ pc = [c \in Client |-> "listen"]
        /\ row = [r \in Request |-> IF r \in Client THEN "none" ELSE "new"]
        /\ socket = [c \in Client |-> <<>>]
        /\ queue = [c \in Client |-> <<>>]
        /\ answered = [c \in Client |-> FALSE]

Goes(c, to) == pc' = [pc EXCEPT ![c] = to]
ReadSocket(c) == /\ queue' = [queue EXCEPT ![c] = @ \o socket[c]]
                 /\ socket' = [socket EXCEPT ![c] = <<>>]
Listening == {c \in Client : pc[c] \notin {"listen", "returned"}}
-----------------------------------------------------------------------------
Listen(c) ==
  /\ pc[c] = "listen"
  /\ Goes(c, "insert")
  /\ UNCHANGED <<row, socket, queue, answered>>

Insert(c) ==
  /\ pc[c] = "insert"
  /\ row' = [row EXCEPT ![c] = "new"]
  /\ Goes(c, "inserted")
  /\ UNCHANGED <<socket, queue, answered>>

InsertReturns(c) ==
  /\ pc[c] = "inserted"
  /\ ReadSocket(c)
  /\ Goes(c, "poll")
  /\ UNCHANGED <<row, answered>>

\* External: the daemon.  A row without a result is one that waits for its time.
Update(r, to) ==
  /\ \/ row[r] = "new" /\ to \in {"scheduled", "done"}
     \/ row[r] = "scheduled" /\ to = "done"
  /\ row' = [row EXCEPT ![r] = to]
  /\ socket' = [c \in Client |->
                  IF c \in Listening THEN Append(socket[c], Uid[r]) ELSE socket[c]]
  /\ UNCHANGED <<pc, queue, answered>>

\* poll has no timeout and looks at the socket only.
Poll(c) ==
  /\ pc[c] = "poll"
  /\ socket[c] # <<>>
  /\ ReadSocket(c)
  /\ Goes(c, "get")
  /\ UNCHANGED <<row, answered>>

\* The loop over the notifications: one for another uid is passed over.
GetFirstOnly(c) ==
  /\ pc[c] = "get"
  /\ IF queue[c] = <<>>
     THEN Goes(c, "poll") /\ UNCHANGED queue
     ELSE /\ queue' = [queue EXCEPT ![c] = <<>>]
          /\ Goes(c, IF Head(queue[c]) = Uid[c] THEN "select" ELSE "get")
  /\ UNCHANGED <<row, socket, answered>>
Get(c) ==
  /\ pc[c] = "get"
  /\ IF queue[c] = <<>>
     THEN Goes(c, "poll") /\ UNCHANGED queue
     ELSE /\ queue' = [queue EXCEPT ![c] = Tail(@)]
          /\ Goes(c, IF Head(queue[c]) = Uid[c] THEN "select" ELSE "get")
  /\ UNCHANGED <<row, socket, answered>>

\* The SELECT of the own row.  Without a result the loop is left, whatever the queue still
\* holds.  With one the client is done: the outcome it reports then is looked up in the result of
\* the INSERT, which has no such column, and is left out here.
Select(c) ==
  /\ pc[c] = "select"
  /\ answered' = [answered EXCEPT ![c] = row[c] = "done"]
  /\ Goes(c, "selected")
  /\ UNCHANGED <<row, socket, queue>>

SelectReturns(c) ==
  /\ pc[c] = "selected"
  /\ ReadSocket(c)
  /\ Goes(c, IF answered[c] THEN "returned" ELSE "poll")
  /\ UNCHANGED <<row, answered>>

Step(c) == \/ Listen(c) \/ Insert(c) \/ InsertReturns(c) \/ Poll(c) \/ Get(c)
           \/ Select(c) \/ SelectReturns(c)
Next == \/ \E c \in Client : Step(c)
        \/ \E r \in Request, to \in {"scheduled", "done"} : Update(r, to)
Spec == Init /\ [][Next]_vars
-----------------------------------------------------------------------------
Notification(c) == \E i \in DOMAIN socket[c] \cup DOMAIN queue[c] :
                     \/ i \in DOMAIN socket[c] /\ socket[c][i] = Uid[c]
                     \/ i \in DOMAIN queue[c] /\ queue[c][i] = Uid[c]

TypeOK ==
  /\ pc \in [Client -> {"listen", "insert", "inserted", "poll", "get", "select", "selected",
                        "returned"}]
  /\ row \in [Request -> {"none", "new", "scheduled", "done"}]
  /\ answered \in [Client -> BOOLEAN]
  /\ {socket, queue} \subseteq [Client -> Seq({Uid[r] : r \in Request})]

\* However the notifications of several requests for one uid mix, the one of the answer is
\* never passed over: a client that waits for a request that is done has it in reach, and
\* one that has returned has its own answer.
AnswerStaysInReach ==
  \A c \in Client :
    /\ pc[c] = "returned" => row[c] = "done"
    /\ row[c] = "done" /\ pc[c] \in {"poll", "get"} => Notification(c)

\* A SELECT without a result is "spuriuos notification or not yet ready"
\* (slowcontrol.cpp:174), so the client polls for the next one.  The code may have it in the
\* queue already, read with the result of the INSERT or of that SELECT, and then nothing
\* wakes poll.
NextOneWakes ==
  \A c \in Client : pc[c] = "poll" /\ row[c] = "done" => socket[c] # <<>>
=============================================================================
