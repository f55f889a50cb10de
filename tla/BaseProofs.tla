----------------------------- MODULE BaseProofs -----------------------------
(***************************************************************************)
(* Theorems about the parts of base/, for every value of their constants.  *)
(* Since a behaviour of BaseParts is one of one part, a part has lemmas    *)
(* about its own Init and its own steps, and a theorem about Spec.         *)
(***************************************************************************)
EXTENDS BaseParts, SequenceTheorems, TLAPS

\* Whose turn it is does not change, and the others do nothing.
LEMMA PartsStep ==
  ASSUME [Next]_all
  PROVE  /\ part' = part
         /\ IF part = "bool" THEN Bool!Next \/ UNCHANGED Bool!vars ELSE UNCHANGED Bool!vars
         /\ IF part = "registry" THEN Names!Next \/ UNCHANGED Names!vars
                                 ELSE UNCHANGED Names!vars
         /\ part = "config" => Options!Next \/ UNCHANGED Options!vars
         /\ part = "client" => Answers!Next \/ UNCHANGED Answers!vars
         /\ part = "states" => States!Next \/ UNCHANGED States!vars
         /\ part = "schedule" => Reader!Next \/ UNCHANGED Reader!vars
<1>1. CASE UNCHANGED all
  BY <1>1 DEF all, boolVars, registryVars, configVars, clientVars, statesVars, scheduleVars,
              Bool!vars, Names!vars, Options!vars, Answers!vars, States!vars, Reader!vars
<1>2. CASE Next
  BY <1>2 DEF Next, boolVars, registryVars, Bool!vars, Names!vars
<1> QED BY <1>1, <1>2

-----------------------------------------------------------------------------
(* StateTracking *)

\* A thread that has been alone since it came into fSetState wants the state of the last
\* value, nobody else is inside, and its update is in the row unless it was lost.
AloneInv ==
  \A t \in Thread :
    alone[t] => /\ goal[t] = last
                /\ \A u \in Thread \ {t} : stPc[u] = "idle" /\ ~alone[u]
                /\ stPc[t] = "assign" /\ ~lost => stRow = goal[t]

\* Without an overlap whoever is inside is alone; between updates program and database
\* agree, and when everybody has left they show the last value.
AgreementInv ==
  ~overlapped =>
    /\ \A t \in Thread : stPc[t] # "idle" => alone[t]
    /\ ~lost /\ (\A t \in Thread : stPc[t] # "assign") => stRow = stLState
    /\ ~lost /\ (\A t \in Thread : stPc[t] = "idle") => stLState = last

StatesInv == States!TypeOK /\ AloneInv /\ AgreementInv

LEMMA StatesInit == States!Init => StatesInv
<1> SUFFICES ASSUME States!Init PROVE StatesInv
  OBVIOUS
<1>1. States!TypeOK
  <2>1. "normal" \in Class /\ 0 \in 0..MaxChecks /\ 0 \in 0..MaxLost
    BY PartsAssumption DEF States!StateAssumption
  <2> QED BY <2>1 DEF States!Init, States!TypeOK
<1>2. AloneInv /\ AgreementInv
  BY DEF States!Init, AloneInv, AgreementInv
<1> QED BY <1>1, <1>2 DEF StatesInv

LEMMA StatesType ==
  ASSUME States!TypeOK, States!Next
  PROVE  States!TypeOK'
<1>1. PICK t \in Thread : \/ \E c \in Class : States!fCheckValue(t, c)
                          \/ States!Compare(t) \/ States!Update(t)
                          \/ States!UpdateFails(t) \/ States!Assign(t)
  BY DEF States!Next
<1>2. MaxChecks \in Nat /\ MaxLost \in Nat
  BY PartsAssumption DEF States!StateAssumption
<1>3. ASSUME NEW c \in Class, States!fCheckValue(t, c) PROVE States!TypeOK'
  <2>1. checks' \in 0..MaxChecks
    BY <1>2, <1>3 DEF States!fCheckValue, States!TypeOK
  <2>2. alone' \in [Thread -> BOOLEAN] /\ overlapped' \in BOOLEAN
    BY <1>3 DEF States!fCheckValue, States!Enter, States!TypeOK
  <2> QED BY <1>3, <2>1, <2>2 DEF States!fCheckValue, States!Goes, States!TypeOK
<1>4. CASE States!Compare(t)
  BY <1>4 DEF States!Compare, States!Goes, States!TypeOK
<1>5. CASE States!Update(t)
  BY <1>5 DEF States!Update, States!Goes, States!TypeOK
<1>6. CASE States!UpdateFails(t)
  <2>1. losses' \in 0..MaxLost
    BY <1>2, <1>6 DEF States!UpdateFails, States!TypeOK
  <2> QED BY <1>6, <2>1 DEF States!UpdateFails, States!Goes, States!TypeOK
<1>7. CASE States!Assign(t)
  BY <1>7 DEF States!Assign, States!Goes, States!TypeOK
<1> QED BY <1>1, <1>3, <1>4, <1>5, <1>6, <1>7

LEMMA StatesStep ==
  ASSUME StatesInv, States!Next \/ UNCHANGED States!vars
  PROVE  StatesInv'
<1> USE DEF StatesInv
<1>1. CASE UNCHANGED States!vars
  BY <1>1 DEF States!vars, States!TypeOK, AloneInv, AgreementInv
<1>2. CASE States!Next
  <2> SUFFICES AloneInv' /\ AgreementInv'
    BY <1>2, StatesType
  <2>2. PICK t \in Thread : \/ \E c \in Class : States!fCheckValue(t, c)
                            \/ States!Compare(t) \/ States!Update(t)
                            \/ States!UpdateFails(t) \/ States!Assign(t)
    BY <1>2 DEF States!Next
  <2>3. /\ stPc \in [Thread -> {"idle", "compare", "update", "assign"}]
        /\ goal \in [Thread -> Class] /\ alone \in [Thread -> BOOLEAN]
    BY DEF States!TypeOK
  <2>4. ASSUME NEW c \in Class, States!fCheckValue(t, c) PROVE AloneInv' /\ AgreementInv'
    <3>1. AloneInv'
      BY <2>3, <2>4 DEF States!fCheckValue, States!Enter, States!Goes, AloneInv
    <3>2. AgreementInv'
      BY <2>3, <2>4 DEF States!fCheckValue, States!Enter, States!Goes, AloneInv, AgreementInv
    <3> QED BY <3>1, <3>2
  <2>5. CASE States!Compare(t)
    BY <2>3, <2>5 DEF States!Compare, States!Goes, AloneInv, AgreementInv
  <2>6. CASE States!Update(t)
    BY <2>3, <2>6 DEF States!Update, States!Goes, AloneInv, AgreementInv
  <2>7. CASE States!UpdateFails(t)
    BY <2>3, <2>7 DEF States!UpdateFails, States!Goes, AloneInv, AgreementInv
  <2>8. CASE States!Assign(t)
    BY <2>3, <2>8 DEF States!Assign, States!Goes, AloneInv, AgreementInv
  <2> QED BY <2>2, <2>4, <2>5, <2>6, <2>7, <2>8
<1> QED BY <1>1, <1>2

LEMMA StatesInvariant == Spec => [](part = "states" => StatesInv)
<1> DEFINE Inv == part = "states" => StatesInv
<1>1. Init => Inv
  BY StatesInit DEF Init
<1>2. Inv /\ [Next]_all => Inv'
  BY PartsStep, StatesStep
<1> QED BY <1>1, <1>2, PTL DEF Spec

\* Program and database show the state of the last value whenever nobody is inside
\* fSetState, unless threads overlapped or a statement was lost and no update was made alone
\* since (measurement.cpp:60-83, measurement.h:440-455).
THEOREM StatesAlwaysAgree == Spec => []StatesAgree
<1>1. (part = "states" => StatesInv) => StatesAgree
  BY DEF StatesAgree, StatesInv, States!StatesAgree, AgreementInv
<1> QED BY <1>1, StatesInvariant, PTL
-----------------------------------------------------------------------------
(* RequestClient *)

\* What a client has got is an answer; and while the answer is there and not seen, its
\* notification is in reach from the moment of the INSERT, but for the SELECT that sees it.
AnswerInv ==
  \A c \in Client :
    /\ clPc[c] \in {"listen", "insert"} => clRow[c] = "none"
    /\ clPc[c] = "returned" => answered[c]
    /\ answered[c] => clRow[c] = "done"
    /\ clRow[c] = "done" /\ clPc[c] \in {"inserted", "poll", "get"} => Answers!Notification(c)
    /\ clRow[c] = "done" /\ clPc[c] = "selected" => answered[c] \/ Answers!Notification(c)

ClientInv == Answers!TypeOK /\ AnswerInv

LEMMA ClientInit == Answers!Init => ClientInv
<1> SUFFICES ASSUME Answers!Init PROVE ClientInv
  OBVIOUS
<1>1. Answers!TypeOK
  BY DEF Answers!Init, Answers!TypeOK
<1>2. Client \subseteq ClientRequest
  BY PartsAssumption DEF Answers!ClientAssumption
<1>3. AnswerInv
  BY <1>2 DEF Answers!Init, AnswerInv
<1> QED BY <1>1, <1>3 DEF ClientInv

\* What is in one of two sequences is in their concatenation.
Has(s, e) == \E i \in DOMAIN s : s[i] = e
LEMMA ConcatHasBoth ==
  ASSUME NEW S, NEW s \in Seq(S), NEW t \in Seq(S), NEW e, Has(s, e) \/ Has(t, e)
  PROVE  Has(s \o t, e)
<1>1. s \o t \in Seq(S) /\ Len(s) \in Nat /\ Len(t) \in Nat /\ Len(s \o t) = Len(s) + Len(t)
  BY ConcatProperties, LenProperties
<1>2. \A i \in 1..Len(s) + Len(t) : (s \o t)[i] = IF i <= Len(s) THEN s[i] ELSE t[i - Len(s)]
  BY ConcatProperties
<1>3. DOMAIN s = 1..Len(s) /\ DOMAIN t = 1..Len(t) /\ DOMAIN (s \o t) = 1..Len(s) + Len(t)
  BY <1>1, LenProperties
<1>4. ASSUME NEW i \in 1..Len(s), s[i] = e PROVE (s \o t)[i] = e /\ i \in 1..Len(s) + Len(t)
  BY <1>1, <1>2, <1>4
<1>5. ASSUME NEW i \in 1..Len(t), t[i] = e
      PROVE  (s \o t)[Len(s) + i] = e /\ Len(s) + i \in 1..Len(s) + Len(t)
  <2>1. /\ Len(s) + i \in 1..Len(s) + Len(t)
        /\ ~(Len(s) + i <= Len(s)) /\ (Len(s) + i) - Len(s) = i
    BY <1>1
  <2> QED BY <1>2, <1>5, <2>1
<1> QED BY <1>3, <1>4, <1>5 DEF Has

\* Reading the socket keeps what is in reach.
LEMMA ReadSocketKeeps ==
  ASSUME Answers!TypeOK, NEW c \in Client, Answers!ReadSocket(c)
  PROVE  /\ {socket', queue'} \subseteq [Client -> Seq({Uid[r] : r \in ClientRequest})]
         /\ \A d \in Client : Answers!Notification(d) => Answers!Notification(d)'
<1> DEFINE U == {Uid[r] : r \in ClientRequest}
<1>1. socket \in [Client -> Seq(U)] /\ queue \in [Client -> Seq(U)]
  BY DEF Answers!TypeOK
<1>2. queue[c] \in Seq(U) /\ socket[c] \in Seq(U)
  BY <1>1
<1>3. /\ queue' = [queue EXCEPT ![c] = queue[c] \o socket[c]]
      /\ socket' = [socket EXCEPT ![c] = <<>>]
  BY DEF Answers!ReadSocket
<1>4. queue[c] \o socket[c] \in Seq(U) /\ <<>> \in Seq(U)
  BY <1>2
<1>5. queue' \in [Client -> Seq(U)] /\ socket' \in [Client -> Seq(U)]
  BY <1>1, <1>3, <1>4
<1>6. Answers!Notification(c) => Answers!Notification(c)'
  <2>1. queue'[c] = queue[c] \o socket[c]
    BY <1>1, <1>3
  <2> SUFFICES ASSUME Answers!Notification(c) PROVE Answers!Notification(c)'
    OBVIOUS
  <2>2. Has(queue[c], Uid[c]) \/ Has(socket[c], Uid[c])
    BY DEF Answers!Notification, Has
  <2>3. Has(queue[c] \o socket[c], Uid[c])
    BY <1>2, <2>2, ConcatHasBoth
  <2> QED BY <2>1, <2>3 DEF Answers!Notification, Has
<1>7. ASSUME NEW d \in Client, d # c, Answers!Notification(d)
      PROVE  Answers!Notification(d)'
  <2>1. queue'[d] = queue[d] /\ socket'[d] = socket[d]
    BY <1>1, <1>3, <1>7
  <2> QED BY <1>7, <2>1 DEF Answers!Notification
<1> QED BY <1>5, <1>6, <1>7

LEMMA ClientStep ==
  ASSUME ClientInv, Answers!Next \/ UNCHANGED Answers!vars
  PROVE  ClientInv'
<1> DEFINE U == {Uid[r] : r \in ClientRequest}
<1> USE DEF ClientInv
<1>1. CASE UNCHANGED Answers!vars
  <2>1. \A c \in Client : Answers!Notification(c)' <=> Answers!Notification(c)
    BY <1>1 DEF Answers!vars, Answers!Notification
  <2>2. Answers!TypeOK'
    BY <1>1 DEF Answers!vars, Answers!TypeOK
  <2> QED BY <1>1, <2>1, <2>2 DEF Answers!vars, AnswerInv
<1>2. /\ clPc \in [Client -> {"listen", "insert", "inserted", "poll", "get", "select",
                              "selected", "returned"}]
      /\ clRow \in [ClientRequest -> {"none", "new", "scheduled", "done"}]
      /\ answered \in [Client -> BOOLEAN]
      /\ socket \in [Client -> Seq(U)] /\ queue \in [Client -> Seq(U)]
      /\ Client \subseteq ClientRequest
  BY PartsAssumption DEF Answers!TypeOK, Answers!ClientAssumption
<1>3. ASSUME NEW c \in Client, Answers!Listen(c) PROVE ClientInv'
  <2>1. \A d \in Client : Answers!Notification(d)' <=> Answers!Notification(d)
    BY <1>3 DEF Answers!Listen, Answers!Notification
  <2>2. Answers!TypeOK'
    BY <1>3 DEF Answers!Listen, Answers!Goes, Answers!TypeOK
  <2> QED BY <1>2, <1>3, <2>1, <2>2 DEF Answers!Listen, Answers!Goes, AnswerInv
<1>4. ASSUME NEW c \in Client, Answers!Insert(c) PROVE ClientInv'
  <2>1. \A d \in Client : Answers!Notification(d)' <=> Answers!Notification(d)
    BY <1>4 DEF Answers!Insert, Answers!Notification
  <2>2. Answers!TypeOK'
    BY <1>4 DEF Answers!Insert, Answers!Goes, Answers!TypeOK
  <2> QED BY <1>2, <1>4, <2>1, <2>2 DEF Answers!Insert, Answers!Goes, AnswerInv
<1>5. ASSUME NEW c \in Client, Answers!InsertReturns(c) PROVE ClientInv'
  <2>1. \A d \in Client : Answers!Notification(d) => Answers!Notification(d)'
    BY <1>5, ReadSocketKeeps DEF Answers!InsertReturns
  <2>2. Answers!TypeOK'
    BY <1>5, ReadSocketKeeps DEF Answers!InsertReturns, Answers!Goes, Answers!TypeOK
  <2> QED BY <1>2, <1>5, <2>1, <2>2 DEF Answers!InsertReturns, Answers!Goes, AnswerInv
<1>6. ASSUME NEW r \in ClientRequest, NEW to \in {"scheduled", "done"}, Answers!Update(r, to)
      PROVE  ClientInv'
  <2>1. socket' = [c \in Client |-> IF c \in Answers!Listening THEN Append(socket[c], Uid[r])
                                   ELSE socket[c]]
    BY <1>6 DEF Answers!Update
  <2>2. \A c \in Client : Append(socket[c], Uid[r]) \in Seq(U)
    BY <1>2
  <2>3. socket' \in [Client -> Seq(U)]
    BY <1>2, <2>1, <2>2
  <2>4. Answers!TypeOK'
    BY <1>6, <2>3 DEF Answers!Update, Answers!TypeOK
  <2>5. ASSUME NEW c \in Client, Answers!Notification(c) PROVE Answers!Notification(c)'
    <3>1. \A i \in DOMAIN socket[c] : i \in DOMAIN socket'[c] /\ socket'[c][i] = socket[c][i]
      BY <1>2, <2>1
    <3>2. queue' = queue
      BY <1>6 DEF Answers!Update
    <3> QED BY <2>5, <3>1, <3>2 DEF Answers!Notification
  <2>6. ASSUME NEW c \in Client, r = c, c \in Answers!Listening PROVE Answers!Notification(c)'
    <3>1. /\ Len(socket[c]) + 1 \in DOMAIN socket'[c]
          /\ socket'[c][Len(socket[c]) + 1] = Uid[c]
      BY <1>2, <2>1, <2>6
    <3> QED BY <3>1 DEF Answers!Notification
  <2>7. AnswerInv'
    BY <1>2, <1>6, <2>5, <2>6 DEF Answers!Update, Answers!Listening, AnswerInv
  <2> QED BY <2>4, <2>7
<1>7. ASSUME NEW c \in Client, Answers!Poll(c) PROVE ClientInv'
  <2>1. \A d \in Client : Answers!Notification(d) => Answers!Notification(d)'
    BY <1>7, ReadSocketKeeps DEF Answers!Poll
  <2>2. Answers!TypeOK'
    BY <1>7, ReadSocketKeeps DEF Answers!Poll, Answers!Goes, Answers!TypeOK
  <2> QED BY <1>2, <1>7, <2>1, <2>2 DEF Answers!Poll, Answers!Goes, AnswerInv
<1>8. ASSUME NEW c \in Client, Answers!Get(c) PROVE ClientInv'
  <2>1. CASE queue[c] = <<>>
    <3>1. UNCHANGED <<queue, socket, clRow, answered>>
      BY <1>8, <2>1 DEF Answers!Get
    <3>2. \A d \in Client : Answers!Notification(d)' <=> Answers!Notification(d)
      BY <3>1 DEF Answers!Notification
    <3>3. clPc' = [clPc EXCEPT ![c] = "poll"] /\ clPc[c] = "get"
      BY <1>8, <2>1 DEF Answers!Get, Answers!Goes
    <3>4. Answers!TypeOK'
      BY <3>1, <3>3 DEF Answers!TypeOK
    <3> QED BY <1>2, <3>1, <3>2, <3>3, <3>4 DEF AnswerInv
  <2>2. CASE queue[c] # <<>>
    <3>1. /\ clPc[c] = "get"
          /\ queue' = [queue EXCEPT ![c] = Tail(queue[c])]
          /\ clPc' = [clPc EXCEPT ![c] = IF Head(queue[c]) = Uid[c] THEN "select" ELSE "get"]
          /\ UNCHANGED <<clRow, socket, answered>>
      BY <1>8, <2>2 DEF Answers!Get, Answers!Goes
    <3>2. Tail(queue[c]) \in Seq(U)
      BY <1>2, <2>2
    <3>3. Answers!TypeOK'
      BY <1>2, <3>1, <3>2 DEF Answers!TypeOK
    <3>4. ASSUME NEW d \in Client, d # c PROVE Answers!Notification(d)' <=> Answers!Notification(d)
      <4>1. queue'[d] = queue[d] /\ socket'[d] = socket[d]
        BY <1>2, <3>1, <3>4
      <4> QED BY <4>1 DEF Answers!Notification
    <3>5. ASSUME Head(queue[c]) # Uid[c], Answers!Notification(c) PROVE Answers!Notification(c)'
      <4>1. CASE \E i \in DOMAIN socket[c] : socket[c][i] = Uid[c]
        BY <3>1, <4>1 DEF Answers!Notification
      <4>2. CASE \E i \in DOMAIN queue[c] : queue[c][i] = Uid[c]
        <5>1. PICK i \in DOMAIN queue[c] : queue[c][i] = Uid[c]
          BY <4>2
        <5>2. queue'[c] = Tail(queue[c])
          BY <1>2, <3>1
        <5>3. i # 1
          BY <1>2, <3>5, <5>1, <2>2
        <5>4. i - 1 \in DOMAIN queue'[c] /\ queue'[c][i - 1] = Uid[c]
          <6>1. /\ Len(queue[c]) \in Nat /\ DOMAIN queue[c] = 1..Len(queue[c])
                /\ DOMAIN Tail(queue[c]) = 1..Len(Tail(queue[c]))
            BY <1>2, <3>2, LenProperties
          <6>2. /\ Len(Tail(queue[c])) = Len(queue[c]) - 1
                /\ \A j \in 1..Len(Tail(queue[c])) : Tail(queue[c])[j] = queue[c][j + 1]
            BY <1>2, <2>2, HeadTailProperties
          <6>3. i - 1 \in 1..Len(queue[c]) - 1 /\ (i - 1) + 1 = i
            BY <5>1, <5>3, <6>1
          <6> QED BY <5>1, <5>2, <6>1, <6>2, <6>3
        <5> QED BY <5>4 DEF Answers!Notification
      <4> QED BY <3>5, <4>1, <4>2 DEF Answers!Notification
    <3>6. AnswerInv'
      BY <1>2, <3>1, <3>4, <3>5 DEF AnswerInv
    <3> QED BY <3>3, <3>6
  <2> QED BY <2>1, <2>2
<1>9. ASSUME NEW c \in Client, Answers!Select(c) PROVE ClientInv'
  <2>1. \A d \in Client : Answers!Notification(d)' <=> Answers!Notification(d)
    BY <1>9 DEF Answers!Select, Answers!Notification
  <2>2. Answers!TypeOK'
    BY <1>9 DEF Answers!Select, Answers!Goes, Answers!TypeOK
  <2> QED BY <1>2, <1>9, <2>1, <2>2 DEF Answers!Select, Answers!Goes, AnswerInv
<1>10. ASSUME NEW c \in Client, Answers!SelectReturns(c) PROVE ClientInv'
  <2>1. \A d \in Client : Answers!Notification(d) => Answers!Notification(d)'
    BY <1>10, ReadSocketKeeps DEF Answers!SelectReturns
  <2>2. Answers!TypeOK'
    BY <1>10, ReadSocketKeeps DEF Answers!SelectReturns, Answers!Goes, Answers!TypeOK
  <2> QED BY <1>2, <1>10, <2>1, <2>2 DEF Answers!SelectReturns, Answers!Goes, AnswerInv
<1> QED BY <1>1, <1>3, <1>4, <1>5, <1>6, <1>7, <1>8, <1>9, <1>10
        DEF Answers!Next, Answers!Step

LEMMA ClientInvariant == Spec => [](part = "client" => ClientInv)
<1> DEFINE Inv == part = "client" => ClientInv
<1>1. Init => Inv
  BY ClientInit DEF Init
<1>2. Inv /\ [Next]_all => Inv'
  BY PartsStep, ClientStep
<1> QED BY <1>1, <1>2, PTL DEF Spec

\* A client whose request is done has the notification in reach, or its answer: the loop over
\* the notifications passes over none that it still needs (slowcontrol.cpp:155-186).
THEOREM AnswersStayInReach == Spec => []AnswerStaysInReach
<1>1. (part = "client" => ClientInv) => AnswerStaysInReach
  BY DEF AnswerStaysInReach, ClientInv, Answers!AnswerStaysInReach, AnswerInv
<1> QED BY <1>1, ClientInvariant, PTL
-----------------------------------------------------------------------------
(* Registry *)

\* The rows of a key that a process has registered.
Entered(p, k) ==
  /\ k \in db.list
  /\ k = Names!Daemon(p) => k \in db.heartbeat
  /\ k \in WriteValue => k \in db.isWriteValue
  /\ k \in Names!Measurements =>
       db.states[k] # NoRow /\ (Names!Only(p, k) => db.connection[k] = Names!Daemon(p))

\* How far each process is: what came before its step is entered, and what the rest of the
\* step relies on is there.
Progress(p) ==
  LET k == Program[p][step[p]] IN
  /\ regPc[p] # "dead" =>
       \A i \in 1..Len(Program[p]) : i < step[p] => Entered(p, Program[p][i])
  /\ regPc[p] \in {"delete", "heartbeat", "state", "insertState", "connect", "member"} =>
       k \in db.list
  /\ regPc[p] \in {"delete", "heartbeat"} => Kind[k] = "daemon"
  /\ regPc[p] \in {"state", "insertState", "connect"} => Kind[k] = "measurement"
  /\ regPc[p] = "member" => Kind[k] = "compound"
  /\ regPc[p] = "connect" => db.states[k] # NoRow
  /\ regPc[p] = "running" => step[p] = Len(Program[p]) /\ Entered(p, k)
ProgressInv == \A p \in Process : Progress(p)

\* Who has a connection registered the measurement.
ConnectionInv ==
  \A m \in Names!Measurements : db.connection[m] # NoRow =>
    \E q \in Process : m \in Names!Registers(q) /\ db.connection[m] = Names!Daemon(q)

RegistryInv == Names!TypeOK /\ ProgressInv /\ ConnectionInv

\* What the assumption says of a program.
LEMMA ProgramFacts ==
  /\ Kind \in [Key -> {"daemon", "measurement", "compound"}]
  /\ WriteValue \subseteq Names!Measurements
  /\ NoRow \notin {Normal, Other} \cup Key
  /\ MaxDeaths \in Nat
  /\ \A p \in Process :
       /\ Len(Program[p]) \in Nat /\ DOMAIN Program[p] = 1..Len(Program[p])
       /\ 1 \in DOMAIN Program[p] /\ Len(Program[p]) # 1
       /\ Names!Daemon(p) \in Key
       /\ \A i \in 1..Len(Program[p]) :
            /\ Program[p][i] \in Key
            /\ Kind[Program[p][i]] = "daemon" <=> i = 1
            /\ Program[p][i] \in Names!Measurements <=> Kind[Program[p][i]] = "measurement"
            /\ Program[p][i] \in Names!Compound <=> Kind[Program[p][i]] = "compound"
            /\ Kind[Program[p][i]] = "compound" =>
                 i - 1 \in 1..Len(Program[p]) /\ Program[p][i - 1] \in Names!Measurements
<1>1. Names!RegistryAssumption
  BY PartsAssumption
<1>2. /\ Kind \in [Key -> {"daemon", "measurement", "compound"}]
      /\ WriteValue \subseteq Names!Measurements
      /\ NoRow \notin {Normal, Other} \cup Key
      /\ MaxDeaths \in Nat
  BY <1>1 DEF Names!RegistryAssumption, Names!Measurements
<1>3. ASSUME NEW p \in Process
      PROVE  /\ Len(Program[p]) \in Nat /\ DOMAIN Program[p] = 1..Len(Program[p])
             /\ 1 \in DOMAIN Program[p] /\ Len(Program[p]) # 1
             /\ Names!Daemon(p) \in Key
             /\ \A i \in 1..Len(Program[p]) :
                  /\ Program[p][i] \in Key
                  /\ Kind[Program[p][i]] = "daemon" <=> i = 1
                  /\ Kind[Program[p][i]] = "compound" =>
                       i - 1 \in 1..Len(Program[p]) /\ Kind[Program[p][i - 1]] = "measurement"
  <2>1. Program[p] \in Seq(Key)
    BY <1>1 DEF Names!RegistryAssumption
  <2>2. Len(Program[p]) \in Nat /\ DOMAIN Program[p] = 1..Len(Program[p])
    BY <2>1, LenProperties
  <2>3. \A i \in 1..Len(Program[p]) : Program[p][i] \in Key
    BY <2>1, ElementOfSeq
  <2>4. /\ Len(Program[p]) > 1
        /\ \A i \in 1..Len(Program[p]) :
             /\ Kind[Program[p][i]] = "daemon" <=> i = 1
             /\ Kind[Program[p][i]] = "compound" =>
                  i > 1 /\ Kind[Program[p][i - 1]] = "measurement"
    BY <1>1 DEF Names!RegistryAssumption
  <2>5. 1 \in 1..Len(Program[p])
    BY <2>2, <2>4
  <2>6. \A i \in 1..Len(Program[p]) : i > 1 => i - 1 \in 1..Len(Program[p])
    BY <2>2
  <2> QED BY <2>2, <2>3, <2>4, <2>5, <2>6 DEF Names!Daemon
<1> QED BY <1>2, <1>3 DEF Names!Measurements, Names!Compound

LEMMA RegistryInit == Names!Init => RegistryInv
<1> SUFFICES ASSUME Names!Init PROVE RegistryInv
  OBVIOUS
<1>1. Names!TypeOK
  BY ProgramFacts DEF Names!Init, Names!TypeOK, Names!Steps
<1>2. ProgressInv
  BY ProgramFacts DEF Names!Init, ProgressInv, Progress
<1>3. ConnectionInv
  BY DEF Names!Init, ConnectionInv
<1> QED BY <1>1, <1>2, <1>3 DEF RegistryInv

LEMMA RegistryType ==
  ASSUME RegistryInv, NEW p \in Process,
         Names!Start(p) \/ Names!Crash(p) \/ \E m \in Names!Measurements : Names!ChangeState(p, m)
  PROVE  Names!TypeOK'
<1> USE DEF RegistryInv
<1> DEFINE k == Program[p][step[p]]
<1>1. /\ regPc \in [Process -> Names!Steps] /\ step \in [Process -> Nat]
      /\ step[p] \in 1..Len(Program[p])
      /\ inserted \in [Process -> BOOLEAN] /\ regLState \in [Process -> {Normal, Other}]
      /\ db \in [list : SUBSET Key,
                 states : [Names!Measurements -> {NoRow, Normal, Other}],
                 connection : [Names!Measurements -> {NoRow} \cup {Names!Daemon(q) : q \in Process}],
                 isWriteValue : SUBSET WriteValue,
                 heartbeat : SUBSET {Names!Daemon(q) : q \in Process},
                 compoundUids : SUBSET (Names!Compound \X Names!Measurements)]
  BY ProgramFacts DEF Names!TypeOK
<1>2. /\ k \in Key
      /\ regPc[p] \in {"state", "insertState", "connect"} => k \in Names!Measurements
      /\ regPc[p] = "member" =>
           k \in Names!Compound /\ Program[p][step[p] - 1] \in Names!Measurements
      /\ Kind[k] \in {"daemon", "measurement", "compound"}
  BY <1>1, ProgramFacts DEF ProgressInv, Progress
<1>3. ASSUME Names!NextKey(p)
      PROVE  /\ regPc' \in [Process -> Names!Steps] /\ step' \in [Process -> Nat]
             /\ \A q \in Process : step'[q] \in DOMAIN Program[q]
  <2>1. \A q \in Process : step[q] \in DOMAIN Program[q]
    BY DEF Names!TypeOK
  <2>2. CASE step[p] = Len(Program[p])
    BY <1>1, <1>3, <2>1, <2>2 DEF Names!NextKey, Names!Goes, Names!Steps
  <2>3. CASE step[p] # Len(Program[p])
    <3>1. step[p] + 1 \in DOMAIN Program[p] /\ step[p] + 1 \in Nat
      BY <1>1, <2>3, ProgramFacts
    <3> QED BY <1>1, <1>3, <2>1, <2>3, <3>1 DEF Names!NextKey, Names!Goes, Names!Steps
  <2> QED BY <2>2, <2>3
<1>4. Names!FollowUp(k) \in Names!Steps
  BY <1>2 DEF Names!FollowUp, Names!Steps
<1>5. CASE Names!Select(p)
  BY <1>1, <1>4, <1>5 DEF Names!Select, Names!Goes, Names!At, Names!TypeOK, Names!Steps
<1>6. CASE Names!InsertFails(p)
  BY <1>1, <1>6 DEF Names!InsertFails, Names!Goes, Names!TypeOK, Names!Steps
<1>7. CASE Names!InsertDone(p)
  <2>1. db' = [db EXCEPT !.list = db.list \cup {k}]
    BY <1>7 DEF Names!InsertDone, Names!At
  <2>2. regPc' \in [Process -> Names!Steps] /\ UNCHANGED <<step, inserted, regLState, regCrashes>>
    BY <1>1, <1>4, <1>7 DEF Names!InsertDone, Names!Goes, Names!At
  <2> HIDE DEF k
  <2> QED BY <1>1, <1>2, <2>1, <2>2 DEF Names!TypeOK
<1>8. CASE Names!DeleteConnections(p)
  BY <1>1, <1>8 DEF Names!DeleteConnections, Names!Goes, Names!TypeOK, Names!Steps
<1>9. CASE Names!InsertHeartbeat(p)
  BY <1>1, <1>3, <1>9 DEF Names!InsertHeartbeat, Names!TypeOK
<1>10. CASE Names!LookForState(p)
  <2>1. db.states[k] # NoRow => db.states[k] \in {Normal, Other}
    BY <1>1, <1>2, <1>10 DEF Names!LookForState
  <2> QED BY <1>1, <1>10, <2>1
          DEF Names!LookForState, Names!Goes, Names!At, Names!TypeOK, Names!Steps
<1>11. CASE Names!InsertState(p)
  <2>1. regPc' \in [Process -> Names!Steps] /\ UNCHANGED <<step, inserted, regLState, regCrashes>>
    BY <1>1, <1>11 DEF Names!InsertState, Names!Goes, Names!Steps
  <2>2. db' = db \/ db' = [db EXCEPT !.states = [db.states EXCEPT ![k] = regLState[p]]]
    BY <1>11 DEF Names!InsertState, Names!At
  <2>3. [db.states EXCEPT ![k] = regLState[p]] \in [Names!Measurements -> {NoRow, Normal, Other}]
    BY <1>1
  <2> HIDE DEF k
  <2>4. CASE db' = db
    BY <1>1, <2>1, <2>4 DEF Names!TypeOK
  <2>5. CASE db' = [db EXCEPT !.states = [db.states EXCEPT ![k] = regLState[p]]]
    BY <1>1, <2>1, <2>3, <2>5 DEF Names!TypeOK
  <2> QED BY <2>2, <2>4, <2>5
<1>12. CASE Names!Connect(p)
  <2>1. UNCHANGED <<inserted, regLState, regCrashes>> /\ Names!NextKey(p)
    BY <1>12 DEF Names!Connect
  <2>2. k \in Names!Measurements
    BY <1>2, <1>12 DEF Names!Connect
  <2>3. db' = [db EXCEPT !.isWriteValue = db.isWriteValue \cup Names!MarkWriteable(k),
                         !.connection = [db.connection EXCEPT ![k] =
                             IF db.connection[k] = NoRow THEN Names!Daemon(p)
                             ELSE db.connection[k]]]
    BY <1>12 DEF Names!Connect, Names!At
  <2>4. Names!MarkWriteable(k) \subseteq WriteValue
    BY DEF Names!MarkWriteable
  <2> QED BY <1>1, <1>3, <2>1, <2>2, <2>3, <2>4 DEF Names!TypeOK
<1>13. CASE Names!AddToCompound(p)
  <2>1. UNCHANGED <<inserted, regLState, regCrashes>> /\ Names!NextKey(p)
    BY <1>13 DEF Names!AddToCompound
  <2>2. /\ db' = [db EXCEPT !.compoundUids = db.compoundUids \cup {<<k, Program[p][step[p] - 1]>>}]
        /\ <<k, Program[p][step[p] - 1]>> \in Names!Compound \X Names!Measurements
    BY <1>2, <1>13 DEF Names!AddToCompound, Names!At, Names!Child
  <2> QED BY <1>1, <1>3, <2>1, <2>2 DEF Names!TypeOK
<1>14. CASE Names!Restart(p)
  BY <1>1, <1>14, ProgramFacts DEF Names!Restart, Names!Goes, Names!TypeOK, Names!Steps
<1>15. CASE Names!Crash(p)
  <2>1. regCrashes' \in 0..MaxDeaths
    BY <1>15, ProgramFacts DEF Names!Crash, Names!TypeOK
  <2> QED BY <1>1, <1>15, <2>1 DEF Names!Crash, Names!Goes, Names!TypeOK, Names!Steps
<1>16. ASSUME NEW m \in Names!Measurements, Names!ChangeState(p, m) PROVE Names!TypeOK'
  <2>1. \E s \in {Normal, Other} : db' = [db EXCEPT !.states = [db.states EXCEPT ![m] = s]]
    BY <1>16 DEF Names!ChangeState
  <2> QED BY <1>1, <1>16, <2>1 DEF Names!ChangeState, Names!TypeOK
<1> QED BY <1>5, <1>6, <1>7, <1>8, <1>9, <1>10, <1>11, <1>12, <1>13, <1>14, <1>15, <1>16
        DEF Names!Start

\* No step takes an entry back, except that a daemon deletes its own connections.
LEMMA RegistryGrows ==
  ASSUME RegistryInv, NEW p \in Process,
         Names!Start(p) \/ Names!Crash(p) \/ \E m \in Names!Measurements : Names!ChangeState(p, m)
  PROVE  /\ db.list \subseteq db'.list /\ db.heartbeat \subseteq db'.heartbeat
         /\ db.isWriteValue \subseteq db'.isWriteValue
         /\ \A m \in Names!Measurements :
              /\ db.states[m] # NoRow => db'.states[m] # NoRow
              /\ db.connection[m] # NoRow => \/ db'.connection[m] = db.connection[m]
                                             \/ /\ db.connection[m] = Names!Daemon(p)
                                                /\ regPc[p] = "delete"
                                                /\ db'.connection[m] = NoRow
              /\ db.connection[m] = NoRow /\ db'.connection[m] # NoRow =>
                   m = Program[p][step[p]] /\ db'.connection[m] = Names!Daemon(p)
<1> DEFINE k == Program[p][step[p]]
<1>1. /\ regLState \in [Process -> {Normal, Other}]
      /\ NoRow \notin {Normal, Other} \cup Key
      /\ db \in [list : SUBSET Key,
                 states : [Names!Measurements -> {NoRow, Normal, Other}],
                 connection : [Names!Measurements -> {NoRow} \cup {Names!Daemon(q) : q \in Process}],
                 isWriteValue : SUBSET WriteValue,
                 heartbeat : SUBSET {Names!Daemon(q) : q \in Process},
                 compoundUids : SUBSET (Names!Compound \X Names!Measurements)]
  BY ProgramFacts DEF RegistryInv, Names!TypeOK
<1>2. CASE db' = db
  BY <1>2
<1>3. CASE Names!InsertDone(p)
  <2>1. db' = [db EXCEPT !.list = db.list \cup {k}]
    BY <1>3 DEF Names!InsertDone, Names!At
  <2> HIDE DEF k
  <2> QED BY <1>1, <2>1
<1>4. CASE Names!DeleteConnections(p)
  <2>1. /\ regPc[p] = "delete"
        /\ db' = [db EXCEPT !.connection =
                   [m \in Names!Measurements |-> IF db.connection[m] = Names!Daemon(p) THEN NoRow
                                                ELSE db.connection[m]]]
    BY <1>4 DEF Names!DeleteConnections
  <2> QED BY <1>1, <2>1
<1>5. CASE Names!InsertHeartbeat(p)
  BY <1>1, <1>5 DEF Names!InsertHeartbeat
<1>6. CASE Names!InsertState(p)
  <2>1. \/ db' = db
        \/ db' = [db EXCEPT !.states = [db.states EXCEPT ![k] = regLState[p]]]
    BY <1>6 DEF Names!InsertState, Names!At
  <2> HIDE DEF k
  <2>2. CASE db' = [db EXCEPT !.states = [db.states EXCEPT ![k] = regLState[p]]]
    BY <1>1, <2>2
  <2> QED BY <1>2, <2>1, <2>2
<1>7. CASE Names!Connect(p)
  <2>1. db' = [db EXCEPT !.isWriteValue = db.isWriteValue \cup Names!MarkWriteable(k),
                         !.connection = [db.connection EXCEPT ![k] =
                             IF db.connection[k] = NoRow THEN Names!Daemon(p)
                             ELSE db.connection[k]]]
    BY <1>7 DEF Names!Connect, Names!At
  <2> HIDE DEF k
  <2>2. db' = [db EXCEPT !.isWriteValue = db'.isWriteValue, !.connection = db'.connection]
    BY <1>1, <2>1
  <2>3. db.isWriteValue \subseteq db'.isWriteValue
    BY <1>1, <2>1
  <2>4. db'.connection = [db.connection EXCEPT ![k] =
                             IF db.connection[k] = NoRow THEN Names!Daemon(p)
                             ELSE db.connection[k]]
    BY <1>1, <2>1
  <2>5. \A m \in Names!Measurements :
          /\ db.connection[m] # NoRow => db'.connection[m] = db.connection[m]
          /\ db.connection[m] = NoRow /\ db'.connection[m] # NoRow =>
               m = k /\ db'.connection[m] = Names!Daemon(p)
    BY <1>1, <2>4
  <2>6. db'.list = db.list /\ db'.heartbeat = db.heartbeat /\ db'.states = db.states
    BY <1>1, <2>1
  <2> QED BY <2>3, <2>5, <2>6 DEF k
<1>8. CASE Names!AddToCompound(p)
  <2>1. \E x : db' = [db EXCEPT !.compoundUids = x]
    BY <1>8 DEF Names!AddToCompound
  <2> QED BY <1>1, <2>1
<1>9. ASSUME NEW m \in Names!Measurements, Names!ChangeState(p, m)
      PROVE  \E s \in {Normal, Other} : db' = [db EXCEPT !.states = [db.states EXCEPT ![m] = s]]
  BY <1>9 DEF Names!ChangeState
<1>10. ASSUME NEW m \in Names!Measurements, NEW s \in {Normal, Other},
              db' = [db EXCEPT !.states = [db.states EXCEPT ![m] = s]]
       PROVE  /\ db.list \subseteq db'.list /\ db.heartbeat \subseteq db'.heartbeat
              /\ db.isWriteValue \subseteq db'.isWriteValue /\ db'.connection = db.connection
              /\ \A n \in Names!Measurements : db.states[n] # NoRow => db'.states[n] # NoRow
  BY <1>1, <1>10
<1> QED BY <1>2, <1>3, <1>4, <1>5, <1>6, <1>7, <1>8, <1>9, <1>10
        DEF Names!Start, Names!Select, Names!InsertFails, Names!LookForState, Names!Restart,
            Names!Crash

LEMMA RegistryStep ==
  ASSUME RegistryInv, Names!Next \/ UNCHANGED Names!vars
  PROVE  RegistryInv'
<1>1. CASE UNCHANGED Names!vars
  BY <1>1 DEF Names!vars, RegistryInv, Names!TypeOK, ProgressInv, Progress, Entered, ConnectionInv
<1>2. ASSUME NEW p \in Process,
             \/ Names!Start(p) \/ Names!Crash(p)
             \/ \E m \in Names!Measurements : Names!ChangeState(p, m)
      PROVE  RegistryInv'
  <2>0. PICK k \in Key : k = Program[p][step[p]]
    BY ProgramFacts DEF RegistryInv, Names!TypeOK
  <2>1. Names!TypeOK'
    BY <1>2, RegistryType
  <2>2. /\ db.list \subseteq db'.list /\ db.heartbeat \subseteq db'.heartbeat
        /\ db.isWriteValue \subseteq db'.isWriteValue
        /\ \A m \in Names!Measurements :
             /\ db.states[m] # NoRow => db'.states[m] # NoRow
             /\ db.connection[m] # NoRow => \/ db'.connection[m] = db.connection[m]
                                            \/ /\ db.connection[m] = Names!Daemon(p)
                                               /\ regPc[p] = "delete"
                                               /\ db'.connection[m] = NoRow
             /\ db.connection[m] = NoRow /\ db'.connection[m] # NoRow =>
                  m = k /\ db'.connection[m] = Names!Daemon(p)
    BY <1>2, <2>0, RegistryGrows
  <2>3. /\ regPc \in [Process -> Names!Steps] /\ step \in [Process -> Nat]
        /\ \A q \in Process : step[q] \in 1..Len(Program[q])
        /\ db \in [list : SUBSET Key,
                   states : [Names!Measurements -> {NoRow, Normal, Other}],
                   connection : [Names!Measurements -> {NoRow} \cup {Names!Daemon(q) : q \in Process}],
                   isWriteValue : SUBSET WriteValue,
                   heartbeat : SUBSET {Names!Daemon(q) : q \in Process},
                   compoundUids : SUBSET (Names!Compound \X Names!Measurements)]
        /\ \A q \in Process : Progress(q)
        /\ ConnectionInv
    BY ProgramFacts DEF RegistryInv, Names!TypeOK, ProgressInv
  <2>4. ConnectionInv'
    <3>1. k \in Names!Registers(p)
      BY <2>0, <2>3, ProgramFacts DEF Names!Registers
    <3> QED BY <2>2, <2>3, <3>1 DEF ConnectionInv
  <2>5. ASSUME NEW q \in Process, NEW l, Entered(q, l), q = p => regPc[p] # "delete"
        PROVE  Entered(q, l)'
    <3>1. ASSUME l \in Names!Measurements, Names!Only(q, l)
          PROVE  db'.connection[l] = Names!Daemon(q)
      <4>1. db.connection[l] = Names!Daemon(q) /\ Names!Daemon(q) # NoRow
        BY <2>5, <3>1, ProgramFacts DEF Entered
      <4>2. Names!Daemon(p) = Names!Daemon(q) => p = q
        BY <3>1 DEF Names!Only
      <4> QED BY <2>2, <2>5, <3>1, <4>1, <4>2
    <3> QED BY <2>2, <2>5, <3>1 DEF Entered
  <2>6. ASSUME NEW q \in Process, q # p PROVE Progress(q)'
    <3>1. regPc'[q] = regPc[q] /\ step'[q] = step[q]
      BY <1>2, <2>3, <2>6
         DEF Names!Start, Names!Crash, Names!ChangeState, Names!Select, Names!InsertFails,
             Names!InsertDone, Names!DeleteConnections, Names!InsertHeartbeat,
             Names!LookForState, Names!InsertState, Names!Connect, Names!AddToCompound,
             Names!Restart, Names!NextKey, Names!Goes
    <3>2. \A l : Entered(q, l) => Entered(q, l)'
      BY <2>5, <2>6
    <3>3. /\ Program[q][step[q]] \in db.list => Program[q][step[q]] \in db'.list
          /\ Kind[Program[q][step[q]]] = "measurement" /\ db.states[Program[q][step[q]]] # NoRow =>
               db'.states[Program[q][step[q]]] # NoRow
      BY <2>2, <2>3, ProgramFacts
    <3>4. Progress(q)
      BY <2>3
    <3> QED BY <3>1, <3>2, <3>3, <3>4 DEF Progress
  <2>7. /\ step[p] \in Nat /\ step[p] \in 1..Len(Program[p]) /\ Len(Program[p]) \in Nat
        /\ k \in Key /\ Kind[k] \in {"daemon", "measurement", "compound"}
        /\ Kind[k] = "daemon" <=> step[p] = 1
        /\ k \in Names!Measurements <=> Kind[k] = "measurement"
        /\ Progress(p)
    BY <2>0, <2>3, ProgramFacts
  <2>8. ASSUME Names!NextKey(p), Entered(p, k)', regPc[p] \notin {"dead", "delete"}
        PROVE  Progress(p)'
    <3>1. \A i \in 1..Len(Program[p]) : i < step[p] => Entered(p, Program[p][i])'
      BY <2>0, <2>5, <2>7, <2>8 DEF Progress
    <3>2. CASE step[p] = Len(Program[p])
      BY <2>0, <2>3, <2>7, <2>8, <3>1, <3>2 DEF Names!NextKey, Names!Goes, Progress
    <3>3. CASE step[p] # Len(Program[p])
      <4>1. step'[p] = step[p] + 1 /\ regPc'[p] = "select"
        BY <2>0, <2>3, <2>8, <3>3 DEF Names!NextKey, Names!Goes
      <4>2. \A i \in 1..Len(Program[p]) : i < step'[p] => i < step[p] \/ i = step[p]
        BY <2>0, <2>7, <4>1
      <4>3. \A i \in 1..Len(Program[p]) : i < step'[p] => Entered(p, Program[p][i])'
        BY <2>0, <2>8, <3>1, <4>2
      <4> QED BY <2>0, <4>1, <4>3 DEF Progress
    <3> QED BY <3>2, <3>3
  <2>9. ASSUME UNCHANGED step, regPc'[p] \in Names!Steps, regPc[p] \notin {"dead", "delete", "running"}
        PROVE  /\ \A i \in 1..Len(Program[p]) : i < step'[p] => Entered(p, Program[p][i])'
               /\ Program[p][step'[p]] = k
               /\ k \in db.list => k \in db'.list
    BY <2>0, <2>2, <2>5, <2>7, <2>9 DEF Progress
  <2>10. Progress(p)'
    <3>1. CASE Names!Select(p)
      <4>1. /\ UNCHANGED step /\ regPc'[p] \in Names!Steps /\ regPc[p] = "select"
            /\ \/ k \in db.list /\ regPc'[p] = Names!FollowUp(k)
               \/ regPc'[p] = "insert"
        BY <2>0, <2>1, <2>3, <3>1 DEF Names!Select, Names!Goes, Names!At, Names!TypeOK
      <4>2. regPc'[p] = "insert" => Progress(p)'
        BY <2>0, <2>9, <4>1 DEF Progress
      <4>3. ASSUME k \in db.list, regPc'[p] = Names!FollowUp(k) PROVE Progress(p)'
        BY <2>0, <2>7, <2>9, <4>1, <4>3 DEF Progress, Names!FollowUp
      <4> QED BY <2>0, <4>1, <4>2, <4>3
    <3>2. CASE Names!InsertFails(p)
      BY <2>0, <2>3, <3>2 DEF Names!InsertFails, Names!Goes, Progress
    <3>3. CASE Names!InsertDone(p)
      <4>1. /\ UNCHANGED step /\ regPc'[p] \in Names!Steps /\ regPc[p] = "insert"
            /\ k \in db'.list /\ regPc'[p] = Names!FollowUp(k)
        BY <2>0, <2>1, <2>3, <3>3 DEF Names!InsertDone, Names!Goes, Names!At, Names!TypeOK
      <4> QED BY <2>0, <2>7, <2>9, <4>1 DEF Progress, Names!FollowUp
    <3>4. CASE Names!DeleteConnections(p)
      <4>1. /\ UNCHANGED step /\ regPc[p] = "delete" /\ regPc'[p] = "heartbeat"
        BY <2>0, <2>3, <3>4 DEF Names!DeleteConnections, Names!Goes
      <4>2. step[p] = 1 /\ Kind[k] = "daemon" /\ k \in db.list
        BY <2>0, <2>7, <4>1 DEF Progress
      <4> QED BY <2>0, <2>2, <4>1, <4>2 DEF Progress
    <3>5. CASE Names!InsertHeartbeat(p)
      <4>1. /\ regPc[p] = "heartbeat" /\ Names!NextKey(p) /\ db'.heartbeat = db.heartbeat \cup {Names!Daemon(p)}
        BY <2>0, <2>3, <3>5 DEF Names!InsertHeartbeat
      <4>2. k \in db.list /\ Kind[k] = "daemon" /\ k \notin Names!Measurements /\ k \notin WriteValue
        BY <2>0, <2>7, <4>1, ProgramFacts DEF Progress
      <4>3. Entered(p, k)'
        BY <2>0, <2>2, <4>1, <4>2 DEF Entered
      <4> QED BY <2>0, <2>8, <4>1, <4>3
    <3>6. CASE Names!LookForState(p)
      <4>1. /\ UNCHANGED step /\ regPc'[p] \in Names!Steps /\ regPc[p] = "state" /\ db' = db
            /\ regPc'[p] = "insertState" \/ (regPc'[p] = "connect" /\ db.states[k] # NoRow)
        BY <2>0, <2>1, <2>3, <3>6 DEF Names!LookForState, Names!Goes, Names!At, Names!TypeOK
      <4> QED BY <2>0, <2>7, <2>9, <4>1 DEF Progress
    <3>7. CASE Names!InsertState(p)
      <4>1. /\ UNCHANGED step /\ regPc'[p] \in Names!Steps /\ regPc[p] = "insertState"
            /\ regPc'[p] = "connect"
        BY <2>0, <2>1, <2>3, <3>7 DEF Names!InsertState, Names!Goes, Names!TypeOK
      <4>2. k \in Names!Measurements
        BY <2>0, <2>7, <4>1 DEF Progress
      <4>3. db'.states[k] # NoRow
        <5>1. CASE db.states[k] # NoRow
          BY <2>0, <2>2, <4>2, <5>1
        <5>2. CASE db.states[k] = NoRow
          <6>1. db' = [db EXCEPT !.states = [db.states EXCEPT ![k] = regLState[p]]]
            BY <2>0, <3>7, <5>2 DEF Names!InsertState, Names!At
          <6>2. regLState[p] # NoRow
            BY ProgramFacts DEF RegistryInv, Names!TypeOK
          <6> QED BY <2>0, <2>3, <4>2, <6>1, <6>2
        <5> QED BY <5>1, <5>2
      <4> QED BY <2>0, <2>7, <2>9, <4>1, <4>3 DEF Progress
    <3>8. CASE Names!Connect(p)
      <4>1. /\ regPc[p] = "connect" /\ Names!NextKey(p)
            /\ db' = [db EXCEPT !.isWriteValue = db.isWriteValue \cup Names!MarkWriteable(k),
                                !.connection = [db.connection EXCEPT ![k] =
                                    IF db.connection[k] = NoRow THEN Names!Daemon(p)
                                    ELSE db.connection[k]]]
        BY <2>0, <3>8 DEF Names!Connect, Names!At
      <4>2. k \in db.list /\ k \in Names!Measurements /\ db.states[k] # NoRow /\ k # Names!Daemon(p)
        BY <2>0, <2>7, <4>1, ProgramFacts DEF Progress, Names!Daemon
      <4>3. k \in WriteValue => k \in db'.isWriteValue
        <5> QED BY <2>0, <2>3, <4>1 DEF Names!MarkWriteable
      <4>4. ASSUME Names!Only(p, k) PROVE db'.connection[k] = Names!Daemon(p)
        <5>1. db.connection[k] # NoRow => db.connection[k] = Names!Daemon(p)
          BY <2>0, <2>3, <4>2, <4>4 DEF ConnectionInv, Names!Only
        <5> QED BY <2>0, <2>3, <4>1, <4>2, <5>1
      <4>5. Entered(p, k)'
        BY <2>0, <2>2, <4>2, <4>3, <4>4 DEF Entered
      <4> QED BY <2>0, <2>8, <4>1, <4>5
    <3>9. CASE Names!AddToCompound(p)
      <4>1. regPc[p] = "member" /\ Names!NextKey(p)
        BY <2>0, <3>9 DEF Names!AddToCompound
      <4>2. k \in db.list /\ Kind[k] = "compound" /\ k \notin Names!Measurements
            /\ k \notin WriteValue /\ k # Names!Daemon(p)
        BY <2>0, <2>7, <4>1, ProgramFacts DEF Progress, Names!Daemon
      <4>3. Entered(p, k)'
        BY <2>0, <2>2, <4>2 DEF Entered
      <4> QED BY <2>0, <2>8, <4>1, <4>3
    <3>10. CASE Names!Restart(p)
      <4>1. step'[p] = 1 /\ regPc'[p] = "select"
        BY <2>0, <2>3, <3>10 DEF Names!Restart, Names!Goes
      <4> QED BY <2>0, <4>1, <2>7 DEF Progress
    <3>11. CASE Names!Crash(p)
      BY <2>0, <2>3, <3>11 DEF Names!Crash, Names!Goes, Progress
    <3>12. ASSUME NEW m \in Names!Measurements, Names!ChangeState(p, m) PROVE Progress(p)'
      <4>1. regPc[p] = "running" /\ regPc' = regPc /\ step' = step
        BY <2>0, <3>12 DEF Names!ChangeState
      <4>2. \A l : Entered(p, l) => Entered(p, l)'
        BY <2>0, <2>5, <4>1
      <4> QED BY <2>0, <2>7, <4>1, <4>2 DEF Progress
    <3> QED BY <2>0, <1>2, <3>1, <3>2, <3>3, <3>4, <3>5, <3>6, <3>7, <3>8, <3>9, <3>10, <3>11, <3>12
            DEF Names!Start
  <2> QED BY <2>1, <2>4, <2>6, <2>10 DEF RegistryInv, ProgressInv
<1> QED BY <1>1, <1>2 DEF Names!Next

LEMMA RegistryInvariant == Spec => [](part = "registry" => RegistryInv)
<1> DEFINE Inv == part = "registry" => RegistryInv
<1>1. Init => Inv
  BY RegistryInit DEF Init
<1>2. Inv /\ [Next]_all => Inv'
  BY PartsStep, RegistryStep
<1> QED BY <1>1, <1>2, PTL DEF Spec

\* Whatever the others do and wherever a process died before, when it runs it has its rows,
\* and the connections of what only it has (slowcontrolDaemon.cpp:36-66, measurement.cpp:25-58).
THEOREM RunningIsAlwaysRegistered == Spec => []RunningIsRegistered
<1>1. (part = "registry" => RegistryInv) => RunningIsRegistered
  <2> SUFFICES ASSUME RegistryInv, NEW p \in Process, regPc[p] = "running"
               PROVE  /\ Names!Registers(p) \subseteq db.list
                      /\ Names!Daemon(p) \in db.heartbeat
                      /\ Names!Registers(p) \cap WriteValue \subseteq db.isWriteValue
                      /\ \A m \in Names!Registers(p) \cap Names!Measurements :
                           /\ db.states[m] # NoRow
                           /\ Names!Only(p, m) => db.connection[m] = Names!Daemon(p)
    BY DEF RunningIsRegistered, Names!RunningIsRegistered
  <2>1. \A i \in 1..Len(Program[p]) : Entered(p, Program[p][i])
    BY ProgramFacts DEF RegistryInv, ProgressInv, Progress
  <2>2. 1 \in 1..Len(Program[p]) /\ DOMAIN Program[p] = 1..Len(Program[p])
    BY ProgramFacts
  <2> QED BY <2>1, <2>2 DEF Entered, Names!Registers, Names!Daemon
<1> QED BY <1>1, RegistryInvariant, PTL
-----------------------------------------------------------------------------
(* ConfigValues *)

\* Row r has a default that is not the one of the program.
Differs(r) == r # NoRow /\ r.default /\ r.value # lValue

\* The daemon is going to write its default into the row, if nothing comes between.
WillUpdate == IF cfgPc = "update" THEN TRUE
              ELSE Differs(cfgRow) \/ (cfgPc = "apply" /\ Differs(cfgResult))

\* What is on the wire: two notifications for each edit, that of the user and that of the
\* daemon's answer, and one for the first UPDATE.  A row of a user is never a default again.
EchoInv ==
  /\ cfgPc = "down" => wire = 0 /\ ~cfgListening
  /\ cfgPc # "down" => wire + (IF WillUpdate THEN 1 ELSE 0) <= 2 * edits + 1
  /\ cfgPc = "apply" /\ cfgResult # NoRow /\ ~cfgResult.default =>
       cfgRow # NoRow /\ ~cfgRow.default

ConfigTypes == /\ {cfgRow, cfgResult} \subseteq Options!Rows
               /\ {known, cfgListening, deaf} \subseteq BOOLEAN
               /\ cfgPc \in {"down", "save", "select", "apply", "update", "saveLater", "idle"}
               /\ {compiled, lValue} \subseteq Value
               /\ wire \in Nat
               /\ edits \in 0..MaxEdits
               /\ starts \in 0..MaxStarts
ConfigInv == ConfigTypes /\ EchoInv

LEMMA ConfigFacts ==
  /\ MaxEdits \in Nat /\ MaxStarts \in Nat /\ Value # {}
  /\ NoRow \in Options!Rows
  /\ \A v \in Value, d \in BOOLEAN : /\ Options!Row(v, d) \in Options!Rows
                                     /\ Options!Row(v, d) # NoRow
                                     /\ Options!Row(v, d).value = v
                                     /\ Options!Row(v, d).default = d
BY PartsAssumption DEF Options!ConfigAssumption, Options!Rows, Options!Row

LEMMA ConfigInit == Options!Init => ConfigInv
<1> SUFFICES ASSUME Options!Init PROVE ConfigInv
  OBVIOUS
<1>1. lValue \in Value /\ compiled \in Value
  BY ConfigFacts DEF Options!Init
<1>2. 0 \in 0..MaxEdits /\ 0 \in 0..MaxStarts
  BY ConfigFacts
<1>3. ConfigTypes
  BY <1>1, <1>2, ConfigFacts DEF Options!Init, ConfigTypes
<1> QED BY <1>3 DEF Options!Init, ConfigInv, EchoInv

\* A step of the daemon that notifies of nothing, and gives it no new reason for an UPDATE.
LEMMA NoNewEcho ==
  ASSUME wire \in Nat, wire' \in Nat, edits \in Nat, EchoInv, cfgPc # "down",
         wire' <= wire, WillUpdate' => WillUpdate, UNCHANGED edits
  PROVE  wire' + (IF WillUpdate' THEN 1 ELSE 0) <= 2 * edits' + 1
<1>1. wire + (IF WillUpdate THEN 1 ELSE 0) <= 2 * edits + 1
  BY DEF EchoInv
<1>2. PICK n \in Nat : n = wire
  OBVIOUS
<1>3. PICK o \in Nat : o = wire'
  OBVIOUS
<1>4. PICK b \in Nat : b = 2 * edits + 1
  OBVIOUS
<1>5. o <= n /\ b = 2 * edits' + 1
  BY <1>2, <1>3, <1>4
<1>6. CASE WillUpdate'
  <2>1. WillUpdate
    BY <1>6
  <2>2. n + 1 <= b
    BY <1>1, <1>2, <1>4, <2>1
  <2>3. o + 1 <= b
    BY <1>5, <2>2
  <2> QED BY <1>3, <1>5, <1>6, <2>3
<1>7. CASE ~WillUpdate'
  <2>1. n <= b
    BY <1>1, <1>2, <1>4
  <2>2. o + 0 <= b
    BY <1>5, <2>1
  <2> QED BY <1>3, <1>5, <1>7, <2>2
<1> QED BY <1>6, <1>7

LEMMA ConfigStep ==
  ASSUME ConfigInv, Options!Next \/ UNCHANGED Options!vars
  PROVE  ConfigInv'
<1>1. /\ ConfigTypes /\ EchoInv
      /\ wire \in Nat /\ edits \in Nat /\ starts \in Nat
  BY DEF ConfigInv, ConfigTypes
<1>2. CASE UNCHANGED Options!vars
  BY <1>1, <1>2 DEF Options!vars, ConfigInv, ConfigTypes, EchoInv, WillUpdate, Differs, Options!Rows
<1>3. ASSUME NEW v \in Value, Options!Start(v) PROVE ConfigInv'
  <2>1. /\ starts' \in 0..MaxStarts /\ compiled' = v /\ lValue' = v
        /\ cfgPc = "down" /\ cfgPc' \in {"select", "save"}
        /\ UNCHANGED <<cfgRow, cfgResult, cfgListening, wire, deaf, edits>> /\ known' = TRUE
    BY <1>1, <1>3, ConfigFacts DEF Options!Start, ConfigTypes
  <2>2. ConfigTypes'
    BY <1>1, <2>1 DEF ConfigTypes, Options!Rows
  <2> QED BY <1>1, <2>1, <2>2 DEF ConfigInv, EchoInv
<1>4. CASE Options!Crash
  <2>1. ConfigTypes'
    BY <1>1, <1>4 DEF Options!Crash, ConfigTypes, Options!Rows
  <2> QED BY <1>4, <2>1 DEF Options!Crash, ConfigInv, EchoInv
<1>5. ASSUME NEW v \in Value, NEW d \in BOOLEAN, Options!Edit(v, d) PROVE ConfigInv'
  <2>1. /\ cfgRow # NoRow /\ (d => cfgRow.default)
        /\ cfgRow' = Options!Row(v, d)
        /\ wire' = IF cfgListening THEN wire + 1 ELSE wire
        /\ deaf' \in BOOLEAN /\ edits' = edits + 1 /\ edits' \in 0..MaxEdits
        /\ UNCHANGED <<known, cfgPc, compiled, lValue, cfgResult, cfgListening, starts>>
    BY <1>1, <1>5, ConfigFacts DEF Options!Edit, Options!Exists, Options!Notify, ConfigTypes
  <2>2. ConfigTypes'
    BY <1>1, <2>1, ConfigFacts DEF ConfigTypes, Options!Rows
  <2>3. cfgPc # "down" => wire' + (IF WillUpdate' THEN 1 ELSE 0) <= 2 * edits' + 1
    <3>1. wire' <= wire + 1 /\ wire' \in Nat
      BY <1>1, <2>1
    <3>2. cfgPc # "down" => wire <= 2 * edits + 1
      BY <1>1 DEF EchoInv
    <3> QED BY <1>1, <2>1, <3>1, <3>2
  <2>4. cfgRow' # NoRow /\ cfgRow'.default = d
    BY <2>1, ConfigFacts
  <2> QED BY <1>1, <2>1, <2>2, <2>3, <2>4 DEF ConfigInv, EchoInv
<1>6. CASE Options!Save
  <2>1. /\ cfgRow' = (IF cfgRow # NoRow THEN cfgRow ELSE Options!Row(lValue, TRUE))
        /\ cfgPc \in {"save", "saveLater"} /\ cfgPc' \in {"select", "idle"}
        /\ UNCHANGED <<known, compiled, lValue, cfgResult, cfgListening, wire, deaf, edits, starts>>
    BY <1>6 DEF Options!Save, Options!Exists
  <2>2. cfgRow' \in Options!Rows /\ (Differs(cfgRow)' => Differs(cfgRow))
    <3>1. lValue \in Value /\ cfgRow \in Options!Rows
      BY <1>1 DEF ConfigTypes
    <3> QED BY <2>1, <3>1, ConfigFacts DEF Differs
  <2>3. ConfigTypes'
    BY <1>1, <2>1, <2>2 DEF ConfigTypes, Options!Rows
  <2>4. WillUpdate' => WillUpdate
    BY <2>1, <2>2 DEF WillUpdate
  <2>5. wire' + (IF WillUpdate' THEN 1 ELSE 0) <= 2 * edits' + 1
    BY <1>1, <2>1, <2>4, NoNewEcho
  <2> QED BY <2>1, <2>3, <2>5 DEF ConfigInv, EchoInv
<1>7. CASE Options!Select
  <2>1. /\ cfgPc = "select" /\ cfgPc' = "apply" /\ cfgResult' = cfgRow
        /\ UNCHANGED <<cfgRow, known, compiled, lValue, cfgListening, wire, deaf, edits, starts>>
    BY <1>7 DEF Options!Select
  <2>2. ConfigTypes'
    BY <1>1, <2>1 DEF ConfigTypes, Options!Rows
  <2>3. WillUpdate' => WillUpdate
    BY <2>1 DEF WillUpdate, Differs
  <2>4. wire' + (IF WillUpdate' THEN 1 ELSE 0) <= 2 * edits' + 1
    BY <1>1, <2>1, <2>3, NoNewEcho
  <2> QED BY <2>1, <2>2, <2>4 DEF ConfigInv, EchoInv
<1>8. CASE Options!Apply
  <2>1. /\ cfgPc = "apply" /\ cfgPc' \in {"saveLater", "update", "idle"}
        /\ UNCHANGED <<cfgRow, known, compiled, cfgResult, cfgListening, wire, deaf, edits, starts>>
    BY <1>8 DEF Options!Apply, Options!Done
  <2>2. lValue' \in Value
    BY <1>1, <1>8 DEF Options!Apply, Options!Done, ConfigTypes, Options!Rows
  <2>3. ConfigTypes'
    BY <1>1, <2>1, <2>2 DEF ConfigTypes, Options!Rows
  <2>4. WillUpdate' => WillUpdate
    <3>1. CASE cfgResult = NoRow
      BY <1>8, <2>1, <3>1 DEF Options!Apply, WillUpdate, Differs
    <3>2. CASE cfgResult # NoRow /\ cfgResult.default /\ cfgResult.value # lValue
      BY <2>1, <3>2 DEF WillUpdate, Differs
    <3>3. CASE cfgResult # NoRow /\ cfgResult.default /\ cfgResult.value = lValue
      BY <1>8, <2>1, <3>3 DEF Options!Apply, Options!Done, WillUpdate, Differs
    <3>4. CASE cfgResult # NoRow /\ ~cfgResult.default
      <4>1. ~cfgRow.default
        BY <1>1, <2>1, <3>4 DEF EchoInv
      <4>2. cfgPc' = "idle"
        BY <1>8, <3>4 DEF Options!Apply, Options!Done
      <4> QED BY <2>1, <4>1, <4>2 DEF WillUpdate, Differs
    <3>5. cfgResult # NoRow => cfgResult.default \in BOOLEAN
      BY <1>1 DEF ConfigTypes, Options!Rows
    <3> QED BY <3>1, <3>2, <3>3, <3>4, <3>5
  <2>5. wire' + (IF WillUpdate' THEN 1 ELSE 0) <= 2 * edits' + 1
    BY <1>1, <2>1, <2>4, NoNewEcho
  <2> QED BY <2>1, <2>3, <2>5 DEF ConfigInv, EchoInv
<1>9. CASE Options!Update
  <2>1. /\ cfgPc = "update" /\ cfgPc' = "idle"
        /\ cfgRow' = Options!Row(lValue, TRUE)
        /\ wire' = IF cfgListening THEN wire + 1 ELSE wire
        /\ UNCHANGED <<known, compiled, lValue, cfgResult, cfgListening, deaf, edits, starts>>
    BY <1>9 DEF Options!Update, Options!Notify
  <2>2. cfgRow' \in Options!Rows /\ ~Differs(cfgRow)'
    <3>1. lValue \in Value
      BY <1>1 DEF ConfigTypes
    <3> QED BY <2>1, <3>1, ConfigFacts DEF Differs
  <2>3. ConfigTypes'
    <3>1. wire' \in Nat
      BY <1>1, <2>1
    <3> QED BY <1>1, <2>1, <2>2, <3>1 DEF ConfigTypes, Options!Rows
  <2>4. WillUpdate /\ ~WillUpdate'
    BY <2>1, <2>2 DEF WillUpdate
  <2> QED BY <1>1, <2>1, <2>3, <2>4 DEF ConfigInv, EchoInv
<1>10. CASE Options!Listen \/ Options!Reconfigure
  <2>1. /\ cfgPc = "idle" /\ cfgPc' \in {"idle", "select"} /\ cfgListening' \in BOOLEAN
        /\ wire' \in Nat /\ wire' <= wire
        /\ UNCHANGED <<cfgRow, known, compiled, lValue, cfgResult, deaf, edits, starts>>
    <3>1. cfgListening \in BOOLEAN
      BY <1>1 DEF ConfigTypes
    <3>2. CASE Options!Listen
      BY <1>1, <3>1, <3>2 DEF Options!Listen
    <3>3. CASE Options!Reconfigure
      BY <1>1, <3>1, <3>3 DEF Options!Reconfigure
    <3> QED BY <1>10, <3>2, <3>3
  <2>2. ConfigTypes'
    BY <1>1, <2>1 DEF ConfigTypes, Options!Rows
  <2>3. WillUpdate' => WillUpdate
    BY <2>1 DEF WillUpdate, Differs
  <2>4. wire' + (IF WillUpdate' THEN 1 ELSE 0) <= 2 * edits' + 1
    BY <1>1, <2>1, <2>3, NoNewEcho
  <2> QED BY <2>1, <2>2, <2>4 DEF ConfigInv, EchoInv
<1> QED BY <1>2, <1>3, <1>4, <1>5, <1>6, <1>7, <1>8, <1>9, <1>10
        DEF Options!Next, Options!Daemon

LEMMA ConfigInvariant == Spec => [](part = "config" => ConfigInv)
<1> DEFINE Inv == part = "config" => ConfigInv
<1>1. Init => Inv
  BY ConfigInit DEF Init
<1>2. Inv /\ [Next]_all => Inv'
  BY PartsStep, ConfigStep
<1> QED BY <1>1, <1>2, PTL DEF Spec

-----------------------------------------------------------------------------
(* BoolMeasurement: for all gaps between samples the graph of the rows is true, *)
(* and the rows are a ValueStream. *)

(* Rows and samples, apart from the program. *)

\* What GraphIsTrue says of rows q and a set S of samples, and that the samples since the
\* last row have its value.
InOrder(q) == \A i, j \in 1..Len(q) : i < j => q[i].lTime <= q[j].lTime
ShownBy(S, r) == \E s \in S : /\ s.lTime <= r.lTime
                              /\ s.lValue = r.lValue
                              /\ \A o \in S : o.lTime <= r.lTime => o.lTime <= s.lTime
RowsShown(q, S) == \A i \in 1..Len(q) : i > 2 => ShownBy(S, q[i])
RowBefore(q, s) == \E i \in 1..Len(q) :
                     /\ q[i].lTime <= s.lTime /\ q[i].lValue = s.lValue
                     /\ \A j \in 1..Len(q) : q[j].lTime <= s.lTime => j <= i
RowAfter(q, s) == (\E j \in 1..Len(q) : q[j].lTime >= s.lTime) =>
                     \E i \in 1..Len(q) :
                       /\ q[i].lTime >= s.lTime /\ q[i].lValue = s.lValue
                       /\ \A j \in 1..Len(q) : q[j].lTime >= s.lTime => i <= j
Held(q, S) == \A s \in S : q[Len(q)].lTime <= s.lTime => s.lValue = q[Len(q)].lValue
Graph(q, S) == /\ InOrder(q) /\ RowsShown(q, S) /\ Held(q, S)
               /\ \A s \in S : RowBefore(q, s) /\ RowAfter(q, s)

\* A row more.
LEMMA RowAppended ==
  ASSUME NEW R, NEW q \in Seq(R), q # <<>>, NEW r \in R
  PROVE  /\ Append(q, r) \in Seq(R) /\ Append(q, r) # <<>>
         /\ Len(q) \in Nat \ {0} /\ Len(Append(q, r)) = Len(q) + 1
         /\ \A i \in 1..Len(q) : Append(q, r)[i] = q[i] /\ q[i] \in R
         /\ Append(q, r)[Len(q) + 1] = r
BY AppendProperties, EmptySeq, ElementOfSeq

\* Repeating the last value later, when the samples have it, changes nothing in the graph.
LEMMA RepeatedRow ==
  ASSUME NEW R, \A x \in R : x.lTime \in Int, NEW S \in SUBSET R,
         NEW q \in Seq(R), q # <<>>, NEW r \in R,
         Graph(q, S), ShownBy(S, r),
         q[Len(q)].lTime <= r.lTime, r.lValue = q[Len(q)].lValue
  PROVE  Graph(Append(q, r), S)
<1> DEFINE n == Len(q)
           p == Append(q, r)
<1>1. /\ n \in Nat \ {0} /\ Len(p) = n + 1
      /\ \A i \in 1..n : p[i] = q[i] /\ q[i].lTime \in Int
      /\ p[n + 1] = r /\ r.lTime \in Int
      /\ \A s \in S : s.lTime \in Int
  BY RowAppended
<1>2. /\ q[n].lTime <= r.lTime /\ r.lValue = q[n].lValue
      /\ \A i, j \in 1..n : i < j => q[i].lTime <= q[j].lTime
      /\ \A i \in 1..n : i > 2 => ShownBy(S, q[i])
      /\ \A s \in S : q[n].lTime <= s.lTime => s.lValue = q[n].lValue
      /\ \A s \in S : RowBefore(q, s) /\ RowAfter(q, s)
  BY DEF Graph, InOrder, RowsShown, Held
<1>3. \A s \in S : RowBefore(q, s) <=>
        \E i \in 1..n : /\ q[i].lTime <= s.lTime /\ q[i].lValue = s.lValue
                        /\ \A j \in 1..n : q[j].lTime <= s.lTime => j <= i
  BY DEF RowBefore
<1>4. \A s \in S : RowAfter(q, s) <=>
        ((\E j \in 1..n : q[j].lTime >= s.lTime) =>
           \E i \in 1..n : /\ q[i].lTime >= s.lTime /\ q[i].lValue = s.lValue
                           /\ \A j \in 1..n : q[j].lTime >= s.lTime => i <= j)
  BY DEF RowAfter
<1> HIDE DEF n, p
<1>5. \A i \in 1..(n + 1) : i \in 1..n \/ i = n + 1
  BY <1>1
<1>6. n \in 1..n /\ \A i \in 1..n : i \in 1..(n + 1) /\ q[i].lTime <= q[n].lTime
  BY <1>1, <1>2
<1>7. InOrder(p)
  BY <1>1, <1>2, <1>5, <1>6 DEF InOrder
<1>8. RowsShown(p, S)
  BY <1>1, <1>2, <1>5 DEF RowsShown
<1>9. Held(p, S)
  BY <1>1, <1>2, <1>6 DEF Held
<1>10. ASSUME NEW s \in S PROVE RowBefore(p, s)
  <2>1. CASE r.lTime <= s.lTime
    <3>1. s.lValue = r.lValue
      BY <1>1, <1>2, <1>6, <2>1
    <3>2. \A j \in 1..(n + 1) : j <= n + 1
      BY <1>1
    <3>3. n + 1 \in 1..(n + 1)
      BY <1>1
    <3> QED BY <1>1, <2>1, <3>1, <3>2, <3>3 DEF RowBefore
  <2>2. CASE ~(r.lTime <= s.lTime)
    <3>1. PICK i \in 1..n : /\ q[i].lTime <= s.lTime /\ q[i].lValue = s.lValue
                            /\ \A j \in 1..n : q[j].lTime <= s.lTime => j <= i
      BY <1>2, <1>3
    <3>2. \A j \in 1..(n + 1) : p[j].lTime <= s.lTime => j <= i
      BY <1>1, <1>5, <2>2, <3>1
    <3>3. i \in 1..(n + 1) /\ p[i] = q[i]
      BY <1>1, <1>6
    <3> QED BY <1>1, <3>1, <3>2, <3>3 DEF RowBefore
  <2> QED BY <2>1, <2>2
<1>11. ASSUME NEW s \in S PROVE RowAfter(p, s)
  <2>1. CASE \E j \in 1..n : q[j].lTime >= s.lTime
    <3>1. PICK i \in 1..n : /\ q[i].lTime >= s.lTime /\ q[i].lValue = s.lValue
                            /\ \A j \in 1..n : q[j].lTime >= s.lTime => i <= j
      BY <1>2, <1>4, <2>1
    <3>2. \A j \in 1..(n + 1) : p[j].lTime >= s.lTime => i <= j
      BY <1>1, <1>5, <3>1
    <3>3. i \in 1..(n + 1) /\ p[i] = q[i]
      BY <1>1, <1>6
    <3> QED BY <1>1, <3>1, <3>2, <3>3 DEF RowAfter
  <2>2. CASE ~\E j \in 1..n : q[j].lTime >= s.lTime
    <3>1. q[n].lTime < s.lTime /\ s.lValue = r.lValue
      BY <1>1, <1>2, <1>6, <2>2
    <3>2. \A j \in 1..(n + 1) : p[j].lTime >= s.lTime => j = n + 1
      BY <1>1, <1>5, <2>2
    <3>3. n + 1 \in 1..(n + 1)
      BY <1>1
    <3> QED BY <1>1, <3>1, <3>2, <3>3 DEF RowAfter
  <2> QED BY <2>1, <2>2
<1> QED BY <1>7, <1>8, <1>9, <1>10, <1>11 DEF Graph, p

\* Nor does a later sample with the value of the last row.
LEMMA HeldSample ==
  ASSUME NEW R, \A x \in R : x.lTime \in Int, NEW S \in SUBSET R,
         NEW q \in Seq(R), q # <<>>, NEW s \in R, Graph(q, S),
         \A o \in S : o.lTime < s.lTime,
         q[Len(q)].lTime < s.lTime, s.lValue = q[Len(q)].lValue
  PROVE  Graph(q, S \cup {s})
<1> DEFINE n == Len(q)
<1>1. /\ n \in Nat \ {0} /\ s.lTime \in Int
      /\ \A i \in 1..n : q[i].lTime \in Int
      /\ \A o \in S : o.lTime \in Int /\ o.lTime < s.lTime
  BY EmptySeq, ElementOfSeq
<1>2. /\ q[n].lTime < s.lTime /\ s.lValue = q[n].lValue
      /\ \A i, j \in 1..n : i < j => q[i].lTime <= q[j].lTime
      /\ \A i \in 1..n : i > 2 => ShownBy(S, q[i])
      /\ \A o \in S : q[n].lTime <= o.lTime => o.lValue = q[n].lValue
      /\ \A o \in S : RowBefore(q, o) /\ RowAfter(q, o)
  BY DEF Graph, InOrder, RowsShown, Held
<1>3. InOrder(q) /\ Held(q, S \cup {s})
  BY <1>2 DEF InOrder, Held, n
<1> HIDE DEF n
<1>4. n \in 1..n /\ \A i \in 1..n : q[i].lTime <= q[n].lTime /\ i <= n
  BY <1>1, <1>2
<1>5. \A i \in 1..n : q[i].lTime < s.lTime
  BY <1>1, <1>2, <1>4
<1>6. RowsShown(q, S \cup {s})
  <2>1. ASSUME NEW i \in 1..n, i > 2 PROVE ShownBy(S \cup {s}, q[i])
    <3>1. ~(s.lTime <= q[i].lTime)
      BY <1>1, <1>5
    <3> QED BY <1>2, <2>1, <3>1 DEF ShownBy
  <2> QED BY <2>1 DEF RowsShown, n
<1>7. RowBefore(q, s)
  BY <1>1, <1>2, <1>4, <1>5 DEF RowBefore, n
<1>8. RowAfter(q, s)
  BY <1>1, <1>5 DEF RowAfter, n
<1> QED BY <1>2, <1>3, <1>6, <1>7, <1>8 DEF Graph

\* A row for a later sample, when no sample is later than the last row.
LEMMA ChangedRow ==
  ASSUME NEW R, \A x \in R : x.lTime \in Int, NEW S \in SUBSET R,
         NEW q \in Seq(R), q # <<>>, NEW s \in R, Graph(q, S),
         \A o \in S : o.lTime <= q[Len(q)].lTime, q[Len(q)].lTime < s.lTime
  PROVE  Graph(Append(q, s), S \cup {s})
<1> DEFINE n == Len(q)
           p == Append(q, s)
<1>1. /\ n \in Nat \ {0} /\ Len(p) = n + 1
      /\ \A i \in 1..n : p[i] = q[i] /\ q[i].lTime \in Int
      /\ p[n + 1] = s /\ s.lTime \in Int
      /\ \A o \in S : o.lTime \in Int /\ o.lTime <= q[n].lTime
  BY RowAppended
<1>2. /\ q[n].lTime < s.lTime
      /\ \A i, j \in 1..n : i < j => q[i].lTime <= q[j].lTime
      /\ \A i \in 1..n : i > 2 => ShownBy(S, q[i])
      /\ \A o \in S : RowBefore(q, o) /\ RowAfter(q, o)
  BY DEF Graph, InOrder, RowsShown
<1>3. \A o \in S : RowBefore(q, o) <=>
        \E i \in 1..n : /\ q[i].lTime <= o.lTime /\ q[i].lValue = o.lValue
                        /\ \A j \in 1..n : q[j].lTime <= o.lTime => j <= i
  BY DEF RowBefore
<1>4. \A o \in S : RowAfter(q, o) <=>
        ((\E j \in 1..n : q[j].lTime >= o.lTime) =>
           \E i \in 1..n : /\ q[i].lTime >= o.lTime /\ q[i].lValue = o.lValue
                           /\ \A j \in 1..n : q[j].lTime >= o.lTime => i <= j)
  BY DEF RowAfter
<1> HIDE DEF n, p
<1>5. /\ \A i \in 1..(n + 1) : i \in 1..n \/ i = n + 1
      /\ n \in 1..n /\ n + 1 \in 1..(n + 1) /\ \A i \in 1..n : i \in 1..(n + 1) /\ i < n + 1
  BY <1>1
<1>6. \A i \in 1..n : q[i].lTime <= q[n].lTime /\ q[i].lTime < s.lTime
  BY <1>1, <1>2, <1>5
<1>7. InOrder(p)
  BY <1>1, <1>2, <1>5, <1>6 DEF InOrder
<1>8. RowsShown(p, S \cup {s})
  <2>1. ASSUME NEW i \in 1..n, i > 2 PROVE ShownBy(S \cup {s}, p[i])
    <3>1. ~(s.lTime <= q[i].lTime)
      BY <1>1, <1>6
    <3> QED BY <1>1, <1>2, <2>1, <3>1 DEF ShownBy
  <2>2. ShownBy(S \cup {s}, s)
    BY <1>1, <1>2, <1>5 DEF ShownBy
  <2> QED BY <1>1, <1>5, <2>1, <2>2 DEF RowsShown
<1>9. Held(p, S \cup {s})
  BY <1>1, <1>2, <1>5 DEF Held
<1>10. ASSUME NEW o \in S PROVE RowBefore(p, o) /\ RowAfter(p, o)
  <2>1. PICK i \in 1..n : /\ q[i].lTime <= o.lTime /\ q[i].lValue = o.lValue
                          /\ \A j \in 1..n : q[j].lTime <= o.lTime => j <= i
    BY <1>2, <1>3
  <2>2. q[n].lTime >= o.lTime /\ ~(s.lTime <= o.lTime)
    BY <1>1, <1>2, <1>5
  <2>3. PICK k \in 1..n : /\ q[k].lTime >= o.lTime /\ q[k].lValue = o.lValue
                          /\ \A j \in 1..n : q[j].lTime >= o.lTime => k <= j
    BY <1>2, <1>4, <1>5, <2>2
  <2>4. \A j \in 1..(n + 1) : p[j].lTime <= o.lTime => j <= i
    BY <1>1, <1>5, <2>1, <2>2
  <2>5. \A j \in 1..(n + 1) : p[j].lTime >= o.lTime => k <= j
    BY <1>1, <1>5, <2>3
  <2>6. RowBefore(p, o)
    BY <1>1, <1>5, <2>1, <2>4 DEF RowBefore
  <2>7. RowAfter(p, o)
    BY <1>1, <1>5, <2>3, <2>5 DEF RowAfter
  <2> QED BY <2>6, <2>7
<1>11. RowBefore(p, s) /\ RowAfter(p, s)
  <2>1. \A j \in 1..(n + 1) : j <= n + 1 /\ (p[j].lTime >= s.lTime => j = n + 1)
    BY <1>1, <1>5, <1>6
  <2> QED BY <1>1, <1>5, <2>1 DEF RowBefore, RowAfter
<1> QED BY <1>7, <1>8, <1>9, <1>10, <1>11 DEF Graph, p

\* The first rows: two of what was in lOldValue, and the first sample.
LEMMA FirstRows ==
  ASSUME NEW R, NEW a \in R, NEW b \in R, NEW s \in R,
         a.lTime \in Int, b.lTime \in Int, s.lTime \in Int,
         a.lTime <= b.lTime, b.lTime < s.lTime
  PROVE  Graph(Append(Append(Append(<<>>, a), b), s), {s})
<1> DEFINE q == Append(Append(Append(<<>>, a), b), s)
<1>1. Len(q) = 3 /\ q[1] = a /\ q[2] = b /\ q[3] = s
  <2>1. <<>> \in Seq(R) /\ Len(<<>>) = 0
    BY EmptySeq
  <2>2. PICK x : x = Append(<<>>, a)
    OBVIOUS
  <2>3. x \in Seq(R) /\ Len(x) = 1 /\ x[1] = a
    BY <2>1, <2>2, AppendProperties
  <2>4. /\ Append(x, b) \in Seq(R) /\ Len(Append(x, b)) = Len(x) + 1
        /\ \A i \in 1..Len(x) : Append(x, b)[i] = x[i]
        /\ Append(x, b)[Len(x) + 1] = b
    <3>1. x \in Seq(R)
      BY <2>3
    <3> QED BY <3>1, AppendProperties
  <2>5. PICK y : y = Append(x, b)
    OBVIOUS
  <2>6. y \in Seq(R) /\ Len(y) = 2 /\ y[1] = a /\ y[2] = b
    BY <2>3, <2>4, <2>5
  <2>7. /\ Len(Append(y, s)) = Len(y) + 1
        /\ \A i \in 1..Len(y) : Append(y, s)[i] = y[i]
        /\ Append(y, s)[Len(y) + 1] = s
    <3>1. y \in Seq(R)
      BY <2>6
    <3> QED BY <3>1, AppendProperties
  <2>8. Len(Append(y, s)) = 3 /\ Append(y, s)[1] = a /\ Append(y, s)[2] = b /\ Append(y, s)[3] = s
    BY <2>6, <2>7
  <2> QED BY <2>2, <2>5, <2>8
<1> HIDE DEF q
<1>2. \A i : i \in 1..3 <=> i \in {1, 2, 3}
  OBVIOUS
<1>3. InOrder(q)
  BY <1>1, <1>2 DEF InOrder
<1>4. RowsShown(q, {s})
  BY <1>1, <1>2 DEF RowsShown, ShownBy
<1>5. Held(q, {s})
  BY <1>1 DEF Held
<1>6. RowBefore(q, s) /\ RowAfter(q, s)
  <2>1. \A j \in 1..3 : j <= 3 /\ (q[j].lTime >= s.lTime => j = 3)
    BY <1>1, <1>2
  <2>2. 3 \in 1..3 /\ q[3].lTime <= s.lTime /\ q[3].lTime >= s.lTime /\ q[3].lValue = s.lValue
    BY <1>1
  <2> QED BY <1>1, <2>1, <2>2 DEF RowBefore, RowAfter
<1> QED BY <1>3, <1>4, <1>5, <1>6 DEF Graph, q

-----------------------------------------------------------------------------
(* measurement<bool> *)

Rows == Bool!timedValue
LastRow == Bool!Queued[Len(Bool!Queued)]

\* lOldValue and lOldTime are the last sample, alone at its time; it is in the last row unless
\* it was held, and then it has the value of that row.
SampleInv ==
  /\ clock = lOldTime
  /\ lNoValueYet => samples = {} /\ lOldValueUnsent /\ clock = 0
  /\ ~lNoValueYet =>
       /\ clock > 0 /\ Bool!Timed(clock, lOldValue) \in samples
       /\ \A s \in samples : s.lTime <= clock /\ (s.lTime = clock => s.lValue = lOldValue)
       /\ LastRow.lValue = lOldValue
       /\ IF lOldValueUnsent THEN LastRow.lTime < clock ELSE LastRow.lTime = clock

BoolInv == /\ Bool!TypeOK
           /\ SampleInv
           /\ ~lNoValueYet => Graph(Bool!Queued, samples)

LEMMA GapFacts == Gaps \subseteq Nat \ {0} /\ BoolMaxTime \in Nat
BY PartsAssumption DEF Bool!BoolAssumption

LEMMA RowFacts ==
  /\ \A x \in Rows : x.lTime \in Int /\ x.lTime \in 0..BoolMaxTime /\ x.lValue \in BOOLEAN
  /\ \A t \in 0..BoolMaxTime, v \in BOOLEAN : Bool!Timed(t, v) \in Rows
  /\ \A t, v : Bool!Timed(t, v).lTime = t /\ Bool!Timed(t, v).lValue = v
  /\ \A x \in Rows : x = Bool!Timed(x.lTime, x.lValue)
BY GapFacts DEF Rows, Bool!timedValue, Bool!Timed

LEMMA BoolInit == Bool!Init => BoolInv
<1> SUFFICES ASSUME Bool!Init PROVE BoolInv
  OBVIOUS
<1>1. <<>> \in Seq(Bool!timedValue) /\ <<>> \o <<>> = <<>>
  BY EmptySeq, ConcatEmptySeq
<1>2. 0 \in 0..BoolMaxTime
  BY GapFacts
<1>3. Bool!TypeOK
  BY <1>1, <1>2 DEF Bool!Init, Bool!TypeOK, Bool!Queued
<1> QED BY <1>3 DEF Bool!Init, BoolInv, SampleInv

\* What has been queued, and how it grows.
LEMMA QueuedRows ==
  ASSUME Bool!TypeOK
  PROVE  /\ Bool!Queued \in Seq(Rows) /\ table \in Seq(Rows) /\ lSendQueue \in Seq(Rows)
         /\ Len(Bool!Queued) = Len(table) + Len(lSendQueue)
         /\ \A r \in Rows : table \o Append(lSendQueue, r) = Append(Bool!Queued, r)
         /\ \A r \in Rows : Append(lSendQueue, r) \in Seq(Rows)
         /\ \A a, b, r \in Rows :
              /\ Append(lSendQueue \o <<a, b>>, r) \in Seq(Rows)
              /\ table \o Append(lSendQueue \o <<a, b>>, r)
                   = Append(Append(Append(Bool!Queued, a), b), r)
<1>1. table \in Seq(Rows) /\ lSendQueue \in Seq(Rows)
  BY DEF Bool!TypeOK, Rows
<1>2. Bool!Queued \in Seq(Rows) /\ Len(Bool!Queued) = Len(table) + Len(lSendQueue)
  BY <1>1, ConcatProperties DEF Bool!Queued
<1>3. ASSUME NEW q \in Seq(Rows), NEW r \in Rows
      PROVE  table \o Append(q, r) = Append(table \o q, r) /\ Append(q, r) \in Seq(Rows)
  <2>1. <<r>> \in Seq(Rows) /\ Append(q, r) = q \o <<r>>
    BY AppendIsConcat
  <2>2. (table \o q) \o <<r>> = table \o (q \o <<r>>)
    BY <1>1, <2>1, ConcatAssociative
  <2>3. table \o q \in Seq(Rows)
    BY <1>1, ConcatProperties
  <2>4. Append(table \o q, r) = (table \o q) \o <<r>>
    BY <2>3, AppendIsConcat
  <2> QED BY <2>1, <2>2, <2>4, AppendProperties
<1>4. ASSUME NEW a \in Rows, NEW b \in Rows
      PROVE  lSendQueue \o <<a, b>> = Append(Append(lSendQueue, a), b)
  <2>1. <<a>> \in Seq(Rows) /\ <<a, b>> = Append(<<a>>, b)
    OBVIOUS
  <2>2. <<b>> \in Seq(Rows) /\ Append(<<a>>, b) = <<a>> \o <<b>>
    BY <2>1, AppendIsConcat
  <2>3. lSendQueue \o (<<a>> \o <<b>>) = (lSendQueue \o <<a>>) \o <<b>>
    BY <1>1, <2>1, <2>2, ConcatAssociative
  <2>4. lSendQueue \o <<a>> = Append(lSendQueue, a) /\ lSendQueue \o <<a>> \in Seq(Rows)
    BY <1>1, <2>1, AppendIsConcat, ConcatProperties
  <2>5. (lSendQueue \o <<a>>) \o <<b>> = Append(lSendQueue \o <<a>>, b)
    BY <2>4, AppendIsConcat
  <2> QED BY <2>1, <2>2, <2>3, <2>4, <2>5
<1>5. \A r \in Rows : /\ table \o Append(lSendQueue, r) = Append(Bool!Queued, r)
                      /\ Append(lSendQueue, r) \in Seq(Rows)
  BY <1>1, <1>3 DEF Bool!Queued
<1>6. ASSUME NEW a \in Rows, NEW b \in Rows, NEW r \in Rows
      PROVE  /\ Append(lSendQueue \o <<a, b>>, r) \in Seq(Rows)
             /\ table \o Append(lSendQueue \o <<a, b>>, r)
                  = Append(Append(Append(Bool!Queued, a), b), r)
  <2>1. Append(lSendQueue, a) \in Seq(Rows) /\ Append(Append(lSendQueue, a), b) \in Seq(Rows)
    BY <1>1, <1>3
  <2>2. table \o Append(Append(lSendQueue, a), b) = Append(Append(Bool!Queued, a), b)
    BY <1>3, <1>5, <2>1
  <2>3. lSendQueue \o <<a, b>> = Append(Append(lSendQueue, a), b)
    BY <1>4
  <2>4. /\ Append(Append(Append(lSendQueue, a), b), r) \in Seq(Rows)
        /\ table \o Append(Append(Append(lSendQueue, a), b), r)
             = Append(table \o Append(Append(lSendQueue, a), b), r)
    BY <1>3, <2>1
  <2> QED BY <2>2, <2>3, <2>4
<1> QED BY <1>1, <1>2, <1>5, <1>6

\* fSendValues takes the next row.
LEMMA DeliveredRow ==
  ASSUME Bool!TypeOK, Bool!fSendValues
  PROVE  /\ Bool!Queued' = Bool!Queued /\ table' \in Seq(Rows) /\ lSendQueue' \in Seq(Rows)
         /\ Len(table) < Len(Bool!Queued) /\ Len(table') = Len(table) + 1
<1> DEFINE h == Head(lSendQueue)
           q == Tail(lSendQueue)
<1>1. /\ table \in Seq(Rows) /\ lSendQueue \in Seq(Rows) /\ lSendQueue # <<>>
      /\ table' = Append(table, h) /\ lSendQueue' = q
      /\ Len(Bool!Queued) = Len(table) + Len(lSendQueue)
  BY QueuedRows DEF Bool!fSendValues
<1>2. h \in Rows /\ q \in Seq(Rows) /\ <<h>> \in Seq(Rows)
  BY <1>1, HeadTailProperties
<1>3. lSendQueue = <<h>> \o q
  BY <1>1
<1>4. Append(table, h) = table \o <<h>> /\ Append(table, h) \in Seq(Rows)
  BY <1>1, <1>2, AppendIsConcat, AppendProperties
<1>5. (table \o <<h>>) \o q = table \o (<<h>> \o q)
  BY <1>1, <1>2, ConcatAssociative
<1>6. Bool!Queued' = Bool!Queued
  BY <1>1, <1>3, <1>4, <1>5 DEF Bool!Queued
<1>7. Len(table) \in Nat /\ Len(lSendQueue) \in Nat \ {0} /\ Len(table') = Len(table) + 1
  BY <1>1, <1>2, LenProperties, EmptySeq, AppendProperties
<1> QED BY <1>1, <1>2, <1>4, <1>6, <1>7

\* What fStore does at time t, with the sample s, the old value a, the row b before the change
\* and the rows P before s.
RowsStored(v, t, s, a, b, P) ==
  /\ t \in 1..BoolMaxTime /\ clock < t /\ t - 1 \in 0..BoolMaxTime /\ clock <= t - 1
  /\ t \in 0..BoolMaxTime
  /\ s \in Rows /\ s.lTime = t /\ s.lValue = v
  /\ a \in Rows /\ a.lTime = clock /\ a.lValue = lOldValue
  /\ b \in Rows /\ b.lTime = t - 1 /\ b.lValue = lOldValue
  /\ P \in Seq(Rows)
  /\ clock' = t /\ lOldTime' = t /\ samples' = samples \cup {s} /\ table' = table
  /\ \/ /\ ~lNoValueYet /\ v = lOldValue
        /\ lOldValueUnsent' = TRUE /\ UNCHANGED <<lSendQueue, lNoValueYet, lOldValue>>
        /\ Bool!Queued' = Bool!Queued
     \/ /\ lNoValueYet \/ v # lOldValue
        /\ lNoValueYet' = FALSE /\ lOldValue' = v /\ lOldValueUnsent' = FALSE
        /\ lSendQueue' \in Seq(Rows) /\ Bool!Queued' = Append(P, s)
\* Two rows of the old value and one of the new, behind those in the queue.
ThreeRows(x, y, z) ==
  /\ Append(lSendQueue \o <<x, y>>, z) \in Seq(Rows)
  /\ table \o Append(lSendQueue \o <<x, y>>, z) = Append(Append(Append(Bool!Queued, x), y), z)

LEMMA StoreRows ==
  ASSUME Bool!TypeOK, clock = lOldTime, NEW v \in BOOLEAN, NEW gap \in Gaps,
         Bool!fStore(v, clock + gap),
         NEW t, t = clock + gap, NEW s, s = Bool!Timed(t, v),
         NEW a, a = Bool!Timed(clock, lOldValue), NEW b, b = Bool!Timed(t - 1, lOldValue),
         NEW P, P = IF lOldValueUnsent THEN Append(Append(Bool!Queued, a), b) ELSE Bool!Queued
  PROVE  RowsStored(v, t, s, a, b, P)
<1>1. /\ lOldValue \in BOOLEAN /\ clock \in 0..BoolMaxTime /\ BoolMaxTime \in Nat
      /\ Bool!Queued \in Seq(Rows) /\ lSendQueue \in Seq(Rows)
      /\ lOldValueUnsent \in BOOLEAN /\ lNoValueYet \in BOOLEAN
  BY QueuedRows, GapFacts DEF Bool!TypeOK
<1>2. /\ t \in 1..BoolMaxTime /\ clock < t /\ t - 1 \in 0..BoolMaxTime /\ clock <= t - 1
      /\ t \in 0..BoolMaxTime
  BY <1>1, GapFacts DEF Bool!fStore
<1>3. /\ s \in Rows /\ s.lTime = t /\ s.lValue = v
      /\ a \in Rows /\ a.lTime = clock /\ a.lValue = lOldValue
      /\ b \in Rows /\ b.lTime = t - 1 /\ b.lValue = lOldValue
  BY <1>1, <1>2, RowFacts
<1>4. clock' = t /\ lOldTime' = t /\ samples' = samples \cup {s} /\ table' = table
  BY DEF Bool!fStore
<1>5. P \in Seq(Rows)
  <2>1. Append(Bool!Queued, a) \in Seq(Rows)
    BY <1>1, <1>3, AppendProperties
  <2>2. Append(Append(Bool!Queued, a), b) \in Seq(Rows)
    BY <1>3, <2>1, AppendProperties
  <2> QED BY <1>1, <2>2
<1>6. CASE ~lNoValueYet /\ v = lOldValue
  <2>1. lOldValueUnsent' = TRUE /\ UNCHANGED <<lSendQueue, lNoValueYet, lOldValue>>
    BY <1>6 DEF Bool!fStore
  <2>2. Bool!Queued' = Bool!Queued
    BY <1>4, <2>1 DEF Bool!Queued
  <2> QED BY <1>2, <1>3, <1>4, <1>5, <1>6, <2>1, <2>2 DEF RowsStored
<1>7. CASE lNoValueYet \/ v # lOldValue
  <2>1. /\ lNoValueYet' = FALSE /\ lOldValue' = v /\ lOldValueUnsent' = FALSE
        /\ lSendQueue' = Append(lSendQueue \o (IF lOldValueUnsent THEN <<a, b>> ELSE <<>>), s)
    BY <1>1, <1>7 DEF Bool!fStore, Bool!OldRows
  <2>2. CASE lOldValueUnsent
    <3>1. lSendQueue' = Append(lSendQueue \o <<a, b>>, s)
      BY <2>1, <2>2
    <3>2. lSendQueue' \in Seq(Rows) /\ Bool!Queued' = Append(P, s)
      <4>1. /\ Append(lSendQueue \o <<a, b>>, s) \in Seq(Rows)
            /\ table \o Append(lSendQueue \o <<a, b>>, s)
                 = Append(Append(Append(Bool!Queued, a), b), s)
        <5>1. \A x, y, z \in Rows : ThreeRows(x, y, z)
          BY QueuedRows DEF ThreeRows
        <5>2. a \in Rows /\ b \in Rows /\ s \in Rows
          BY <1>3
        <5>3. ThreeRows(a, b, s)
          BY <5>1, <5>2
        <5> QED BY <5>3 DEF ThreeRows
      <4>2. P = Append(Append(Bool!Queued, a), b)
        BY <2>2
      <4>3. Bool!Queued' = table \o lSendQueue'
        BY <1>4 DEF Bool!Queued
      <4> QED BY <3>1, <4>1, <4>2, <4>3
    <3> QED BY <1>2, <1>3, <1>4, <1>5, <1>7, <2>1, <3>2 DEF RowsStored
  <2>3. CASE ~lOldValueUnsent
    <3>1. lSendQueue' = Append(lSendQueue, s)
      BY <1>1, <2>1, <2>3, ConcatEmptySeq
    <3>2. lSendQueue' \in Seq(Rows) /\ Bool!Queued' = Append(P, s)
      BY <1>3, <1>4, <2>3, <3>1, QueuedRows DEF Bool!Queued
    <3> QED BY <1>2, <1>3, <1>4, <1>5, <1>7, <2>1, <3>2 DEF RowsStored
  <2> QED BY <2>2, <2>3
<1> QED BY <1>1, <1>6, <1>7

\* A step on the stream of rows: a hold, a change (of the first sample, after a hold, or
\* not), a flush, a row delivered.
LEMMA BoolStep ==
  ASSUME BoolInv, Bool!Next \/ UNCHANGED Bool!vars
  PROVE  BoolInv'
<1> DEFINE Q == Bool!Queued
<1>1. CASE UNCHANGED Bool!vars
  BY <1>1 DEF Bool!vars, BoolInv, SampleInv, Bool!TypeOK, Bool!Queued, LastRow
<1>2. CASE Bool!fSendValues
  <2>1. /\ lSendQueue # <<>> /\ table' = Append(table, Head(lSendQueue))
        /\ lSendQueue' = Tail(lSendQueue)
        /\ UNCHANGED <<lOldValue, lOldTime, lNoValueYet, lOldValueUnsent, clock, samples>>
    BY <1>2 DEF Bool!fSendValues
  <2>2. Bool!Queued' = Bool!Queued /\ table' \in Seq(Rows) /\ lSendQueue' \in Seq(Rows)
    BY <1>2, <2>1, DeliveredRow DEF BoolInv
  <2> QED BY <2>1, <2>2 DEF BoolInv, SampleInv, Bool!TypeOK, LastRow, Rows
<1>3. /\ Q \in Seq(Rows) /\ Len(Q) \in Nat
      /\ lOldValue \in BOOLEAN /\ lNoValueYet \in BOOLEAN /\ lOldValueUnsent \in BOOLEAN
      /\ clock \in 0..BoolMaxTime /\ lOldTime = clock /\ BoolMaxTime \in Nat
      /\ samples \in SUBSET Rows /\ table \in Seq(Rows) /\ lSendQueue \in Seq(Rows)
      /\ lNoValueYet <=> Q = <<>>
      /\ \A x \in Rows : x.lTime \in Int
  BY QueuedRows, LenProperties, RowFacts, GapFacts
     DEF BoolInv, Bool!TypeOK, SampleInv, Rows
<1>4. Bool!TypeOK
  BY DEF BoolInv
<1>5. ~lNoValueYet =>
        /\ clock > 0 /\ Bool!Timed(clock, lOldValue) \in samples
        /\ \A s \in samples : s.lTime <= clock /\ (s.lTime = clock => s.lValue = lOldValue)
        /\ Q[Len(Q)].lValue = lOldValue
        /\ Q[Len(Q)].lTime <= clock
        /\ lOldValueUnsent => Q[Len(Q)].lTime < clock
        /\ ~lOldValueUnsent => Q[Len(Q)].lTime = clock
        /\ Graph(Q, samples)
  <2>1. Q # <<>> => Q[Len(Q)].lTime \in Int
    <3>1. Q # <<>> => Len(Q) \in 1..Len(Q)
      BY <1>3, EmptySeq
    <3> QED BY <1>3, <3>1, ElementOfSeq
  <2> QED BY <1>3, <2>1 DEF BoolInv, SampleInv, LastRow
<1>6. ~lNoValueYet => ShownBy(samples, Bool!Timed(clock, lOldValue))
  <2> SUFFICES ASSUME ~lNoValueYet PROVE ShownBy(samples, Bool!Timed(clock, lOldValue))
    OBVIOUS
  <2>1. PICK r : r = Bool!Timed(clock, lOldValue)
    OBVIOUS
  <2>2. r \in samples /\ r.lTime = clock
    BY <1>5, <2>1, RowFacts
  <2>3. \A s \in samples : s.lTime <= r.lTime
    BY <1>5, <2>2
  <2>4. r.lTime <= r.lTime
    BY <1>3, <2>2
  <2>5. ShownBy(samples, r)
    BY <2>2, <2>3, <2>4 DEF ShownBy
  <2> QED BY <2>1, <2>5
<1> HIDE DEF Q
<1>7. CASE Bool!fFlush
  <2> DEFINE r == Bool!Timed(clock, lOldValue)
  <2>1. /\ lOldValueUnsent /\ ~lNoValueYet /\ lSendQueue' = Append(lSendQueue, r)
        /\ lOldValueUnsent' = FALSE
        /\ UNCHANGED <<lOldValue, lOldTime, lNoValueYet, table, clock, samples>>
    BY <1>3, <1>7 DEF Bool!fFlush
  <2>2. r \in Rows /\ r.lTime = clock /\ r.lValue = lOldValue
    BY <1>3, RowFacts
  <2>3. Bool!Queued' = Append(Q, r) /\ lSendQueue' \in Seq(Rows)
    BY <1>4, <2>1, <2>2, QueuedRows DEF Q, Bool!Queued
  <2>4. Graph(Append(Q, r), samples)
    BY <1>3, <1>5, <1>6, <2>1, <2>2, RepeatedRow
  <2>5. /\ Append(Q, r) # <<>> /\ Len(Append(Q, r)) = Len(Q) + 1
        /\ Append(Q, r)[Len(Q) + 1] = r
    BY <1>3, <2>1, <2>2, RowAppended
  <2> HIDE DEF r
  <2>6. Bool!TypeOK'
    BY <1>3, <2>1, <2>3, <2>5 DEF Bool!TypeOK, Rows
  <2>7. SampleInv'
    BY <1>3, <1>5, <2>1, <2>2, <2>3, <2>5 DEF SampleInv, LastRow
  <2> QED BY <2>1, <2>3, <2>4, <2>6, <2>7 DEF BoolInv
<1>8. ASSUME NEW v \in BOOLEAN, NEW gap \in Gaps, Bool!fStore(v, clock + gap) PROVE BoolInv'
  <2>1. PICK t, s, a, b, P :
          /\ t = clock + gap /\ s = Bool!Timed(t, v)
          /\ a = Bool!Timed(clock, lOldValue) /\ b = Bool!Timed(t - 1, lOldValue)
          /\ P = IF lOldValueUnsent THEN Append(Append(Q, a), b) ELSE Q
    OBVIOUS
  <2>0. RowsStored(v, t, s, a, b, P)
    BY <1>3, <1>4, <1>8, <2>1, StoreRows DEF Q
  <2>2. /\ t \in 1..BoolMaxTime /\ clock < t /\ t - 1 \in 0..BoolMaxTime /\ clock <= t - 1
        /\ t \in 0..BoolMaxTime
        /\ s \in Rows /\ s.lTime = t /\ s.lValue = v
        /\ a \in Rows /\ a.lTime = clock /\ a.lValue = lOldValue
        /\ b \in Rows /\ b.lTime = t - 1 /\ b.lValue = lOldValue
        /\ P \in Seq(Rows)
        /\ clock' = t /\ lOldTime' = t /\ samples' = samples \cup {s} /\ table' = table
    BY <2>0 DEF RowsStored
  <2>3. \/ /\ ~lNoValueYet /\ v = lOldValue
           /\ lOldValueUnsent' = TRUE /\ UNCHANGED <<lSendQueue, lNoValueYet, lOldValue>>
           /\ Bool!Queued' = Q
        \/ /\ lNoValueYet \/ v # lOldValue
           /\ lNoValueYet' = FALSE /\ lOldValue' = v /\ lOldValueUnsent' = FALSE
           /\ lSendQueue' \in Seq(Rows) /\ Bool!Queued' = Append(P, s)
    BY <2>0 DEF RowsStored, Q
  <2>4. samples' \in SUBSET Rows
    BY <1>3, <2>2
  <2>5. CASE ~lNoValueYet /\ v = lOldValue
    <3>1. lOldValueUnsent' = TRUE /\ UNCHANGED <<lSendQueue, lNoValueYet, lOldValue>>
      BY <2>3, <2>5
    <3>2. Bool!Queued' = Q
      BY <2>3, <2>5
    <3>3. \A o \in samples : o.lTime < s.lTime
      <4> SUFFICES ASSUME NEW o \in samples PROVE o.lTime < s.lTime
        OBVIOUS
      <4>1. o.lTime <= clock /\ o.lTime \in Int
        BY <1>3, <1>5, <2>5
      <4> QED BY <1>3, <2>2, <4>1
    <3>4. Q[Len(Q)].lTime < s.lTime /\ Q # <<>>
      <4>1. Q # <<>> /\ Len(Q) \in 1..Len(Q)
        BY <1>3, <2>5, EmptySeq
      <4>2. Q[Len(Q)].lTime \in Int /\ Q[Len(Q)].lTime <= clock
        BY <1>3, <1>5, <2>5, <4>1, ElementOfSeq
      <4> QED BY <1>3, <2>2, <4>1, <4>2
    <3>5. Graph(Q, samples \cup {s})
      BY <1>3, <1>5, <2>2, <2>5, <3>3, <3>4, HeldSample
    <3>6. Bool!TypeOK'
      BY <1>3, <2>2, <2>4, <3>1, <3>2 DEF Bool!TypeOK, Rows
    <3>7. \A o \in samples' : o.lTime <= t /\ (o.lTime = t => o.lValue = v)
      BY <1>3, <2>2, <3>3
    <3>8. SampleInv'
      BY <1>3, <1>5, <2>1, <2>2, <2>5, <3>1, <3>2, <3>4, <3>7 DEF SampleInv, LastRow
    <3> QED BY <2>2, <3>1, <3>2, <3>5, <3>6, <3>8 DEF BoolInv
  <2>6. CASE lNoValueYet \/ v # lOldValue
    <3>1. /\ lNoValueYet' = FALSE /\ lOldValue' = v /\ lOldValueUnsent' = FALSE
          /\ lSendQueue' \in Seq(Rows) /\ Bool!Queued' = Append(P, s)
      BY <2>3, <2>6
    <3>2. Append(P, s) # <<>> /\ Append(P, s)[Len(Append(P, s))] = s
      BY <2>2, <3>1, AppendProperties
    <3>3. Graph(Append(P, s), samples \cup {s})
      <4>1. CASE lNoValueYet
        <5>1. samples = {} /\ Q = <<>> /\ lOldValueUnsent
          BY <1>3, <4>1 DEF BoolInv, SampleInv
        <5>2. P = Append(Append(<<>>, a), b) /\ samples \cup {s} = {s}
          BY <2>1, <5>1
        <5>3. Graph(Append(Append(Append(<<>>, a), b), s), {s})
          BY <1>3, <2>2, FirstRows
        <5> QED BY <5>2, <5>3
      <4>2. CASE ~lNoValueYet /\ lOldValueUnsent
        <5>1. Q # <<>> /\ ShownBy(samples, a)
          BY <1>3, <1>6, <2>1, <4>2
        <5>2. Graph(Append(Q, a), samples)
          BY <1>3, <1>5, <2>2, <4>2, <5>1, RepeatedRow
        <5>3. /\ Append(Q, a) \in Seq(Rows) /\ Append(Q, a) # <<>>
              /\ Append(Q, a)[Len(Append(Q, a))] = a
          <6>1. Q \in Seq(Rows) /\ a \in Rows
            BY <1>3, <2>2
          <6> QED BY <6>1, AppendProperties
        <5>4. ShownBy(samples, b)
          BY <1>3, <1>5, <2>2, <2>1, <4>2 DEF ShownBy
        <5>5. a.lTime <= b.lTime
          BY <2>2
        <5>6. Graph(P, samples)
          BY <1>3, <2>2, <2>1, <4>2, <5>2, <5>3, <5>4, <5>5, RepeatedRow
        <5>7. P # <<>> /\ P[Len(P)] = b
          BY <2>2, <2>1, <4>2, <5>3, AppendProperties
        <5>8. \A o \in samples : o.lTime <= b.lTime
          BY <1>3, <1>5, <2>2, <4>2
        <5>9. b.lTime < s.lTime
          BY <2>2
        <5> QED BY <1>3, <2>2, <3>1, <5>6, <5>7, <5>8, <5>9, ChangedRow
      <4>3. CASE ~lNoValueYet /\ ~lOldValueUnsent
        <5>1. Q # <<>> /\ P = Q /\ Q[Len(Q)].lTime = clock
          BY <1>3, <1>5, <2>1, <4>3
        <5>2. \A o \in samples : o.lTime <= Q[Len(Q)].lTime
          BY <1>5, <4>3, <5>1
        <5>3. Q[Len(Q)].lTime < s.lTime
          BY <2>2, <5>1
        <5> QED BY <1>3, <1>5, <2>2, <4>3, <5>1, <5>2, <5>3, ChangedRow
      <4> QED BY <1>3, <4>1, <4>2, <4>3
    <3>4. Bool!TypeOK'
      BY <1>3, <2>2, <2>4, <3>1, <3>2 DEF Bool!TypeOK, Rows
    <3>5. \A o \in samples' : o.lTime <= t /\ (o.lTime = t => o.lValue = v)
      <4> SUFFICES ASSUME NEW o \in samples PROVE o.lTime < t
        BY <1>3, <2>2
      <4>1. o.lTime \in Int /\ o.lTime <= clock
        BY <1>3, <1>5 DEF BoolInv, SampleInv
      <4> QED BY <1>3, <2>2, <4>1
    <3>6. SampleInv'
      BY <2>1, <2>2, <3>1, <3>2, <3>5 DEF SampleInv, LastRow
    <3> QED BY <2>2, <3>1, <3>3, <3>4, <3>6 DEF BoolInv
  <2> QED BY <1>3, <2>5, <2>6
<1> QED BY <1>1, <1>2, <1>7, <1>8 DEF Bool!Next, Bool!NothingToFlush

LEMMA BoolInvariant == Spec => [](part = "bool" => BoolInv)
<1> DEFINE Inv == part = "bool" => BoolInv
<1>1. Init => Inv
  BY BoolInit DEF Init
<1>2. Inv /\ [Next]_all => Inv'
  BY PartsStep, BoolStep
<1> QED BY <1>1, <1>2, PTL DEF Spec

\* Every sample is shown by the rows before and after it, and no row tells a wrong value, with
\* holds, changes and flushes in any order (measurement.h:345-398).
THEOREM GraphIsAlwaysTrue == Spec => []GraphIsTrue
<1>1. (part = "bool" => BoolInv) => GraphIsTrue
  <2> SUFFICES ASSUME BoolInv PROVE Bool!RowsAreTrue /\ Bool!SamplesAreShown
    BY DEF GraphIsTrue, Bool!GraphIsTrue
  <2> DEFINE Q == Bool!Queued
  <2>1. Q \in Seq(Rows) /\ DOMAIN Q = 1..Len(Q) /\ Len(Q) \in Nat
    BY QueuedRows, LenProperties DEF BoolInv
  <2>2. lNoValueYet => Q = <<>> /\ samples = {}
    BY DEF BoolInv, SampleInv, Bool!TypeOK
  <2>3. CASE lNoValueYet
    <3>1. DOMAIN Q = {} /\ samples = {}
      BY <2>2, <2>3
    <3> QED BY <3>1 DEF Bool!RowsAreTrue, Bool!SamplesAreShown
  <2>4. CASE ~lNoValueYet
    <3>1. Graph(Q, samples)
      BY <2>4 DEF BoolInv
    <3> HIDE DEF Q
    <3>2. /\ \A i, j \in DOMAIN Q : i < j => Q[i].lTime <= Q[j].lTime
          /\ \A i \in DOMAIN Q : i > 2 => ShownBy(samples, Q[i])
          /\ \A s \in samples : RowBefore(Q, s) /\ RowAfter(Q, s)
      BY <2>1, <3>1 DEF Graph, InOrder, RowsShown
    <3>3. Bool!RowsAreTrue
      BY <3>2 DEF Bool!RowsAreTrue, Bool!Showed, ShownBy, Q
    <3>4. ASSUME NEW s \in samples
          PROVE  LET before == {i \in DOMAIN Q : Q[i].lTime <= s.lTime}
                     after  == {i \in DOMAIN Q : Q[i].lTime >= s.lTime}
                 IN  /\ \E i \in before : Q[i].lValue = s.lValue /\ \A j \in before : j <= i
                     /\ after # {} => \E i \in after : /\ Q[i].lValue = s.lValue
                                                      /\ \A j \in after : i <= j
      BY <2>1, <3>2 DEF RowBefore, RowAfter
    <3> QED BY <3>3, <3>4 DEF Bool!SamplesAreShown, Q
  <2> QED BY <2>3, <2>4
<1> QED BY <1>1, BoolInvariant, PTL

\* A prefix is one for the abstract specification.
LEMMA PrefixKept ==
  ASSUME NEW R, NEW q \in Seq(R), NEW p \in Seq(R), Len(q) <= Len(p),
         \A i \in 1..Len(q) : p[i] = q[i]
  PROVE  SubSeq(p, 1, Len(q)) = q
<1> DEFINE x == SubSeq(p, 1, Len(q))
<1>1. Len(q) \in Nat /\ \A i \in 1..Len(q) : p[i] \in R
  BY LenProperties, ElementOfSeq
<1>2. x \in Seq(R) /\ Len(x) = Len(q) /\ \A i \in 1..Len(q) : x[i] = q[i]
  BY <1>1, SubSeqProperties
<1> HIDE DEF x
<1>3. x = q
  BY <1>2, SeqEqual
<1> QED BY <1>3 DEF x

\* What is queued only grows, and ends in the newest sample when it does; what is held or
\* flushed has not been queued; the table is a prefix.
LEMMA BoolRefines ==
  ASSUME BoolInv, Bool!Next \/ UNCHANGED Bool!vars
  PROVE  Bool!Stream!Next \/ UNCHANGED Bool!Stream!vars
<1> DEFINE Q == Bool!Queued
           newest == IF lNoValueYet THEN Bool!NoSample ELSE Bool!Timed(lOldTime, lOldValue)
<1>1. CASE UNCHANGED Bool!vars
  BY <1>1 DEF Bool!vars, Bool!Stream!vars, Bool!Queued
<1>2. CASE Bool!fSendValues
  <2>1. Q' = Q /\ Len(table) < Len(Q) /\ Len(table') = Len(table) + 1 /\ newest' = newest
    BY <1>2, DeliveredRow DEF BoolInv, Bool!fSendValues
  <2>2. Bool!Stream!Deliver
    BY <2>1 DEF Bool!Stream!Deliver
  <2> QED BY <2>2 DEF Bool!Stream!Next
<1>3. /\ Bool!TypeOK /\ Q \in Seq(Rows) /\ Len(Q) \in Nat
      /\ lOldValue \in BOOLEAN /\ lNoValueYet \in BOOLEAN /\ lOldValueUnsent \in BOOLEAN
      /\ clock \in 0..BoolMaxTime /\ lOldTime = clock
      /\ lNoValueYet <=> Q = <<>>
      /\ \A x \in Rows : x.lTime \in Int
  BY QueuedRows, LenProperties, RowFacts DEF BoolInv, Bool!TypeOK, SampleInv
<1>4. ~lNoValueYet =>
        /\ clock > 0 /\ newest = Bool!Timed(clock, lOldValue) /\ newest # Bool!NoSample
        /\ lOldValueUnsent => Q[Len(Q)].lTime < clock
        /\ InOrder(Q)
  BY <1>3 DEF BoolInv, SampleInv, LastRow, Graph, Bool!NoSample, Bool!Timed
<1>5. \A i \in 1..Len(Q) : Q[i] \in Rows /\ Q[i].lTime <= clock
  <2> SUFFICES ASSUME NEW i \in 1..Len(Q) PROVE Q[i] \in Rows /\ Q[i].lTime <= clock
    OBVIOUS
  <2> HIDE DEF Q
  <2>1. Len(Q) \in 1..Len(Q) /\ Q # <<>> /\ (i = Len(Q) \/ i < Len(Q))
    BY <1>3, EmptySeq
  <2>2. Q[i] \in Rows /\ Q[Len(Q)] \in Rows
    BY <1>3, <2>1, ElementOfSeq
  <2>3. Q[i].lTime \in Int /\ Q[Len(Q)].lTime \in Int
    BY <1>3, <2>2
  <2>4. Q[i].lTime <= Q[Len(Q)].lTime
    BY <1>3, <1>4, <2>1, <2>3 DEF InOrder
  <2>5. Q[Len(Q)].lTime <= clock
    BY <1>3, <2>1, <2>3 DEF BoolInv, SampleInv, LastRow, Q
  <2> QED BY <1>3, <2>2, <2>3, <2>4, <2>5
<1>6. ASSUME NEW p \in Seq(Rows), NEW r \in Rows, Bool!Queued' = Append(p, r), newest' = r,
             Len(Q) <= Len(p), \A i \in 1..Len(Q) : p[i] = Q[i]
      PROVE  Bool!Stream!Report
  <2>1. /\ Append(p, r) \in Seq(Rows) /\ Len(Append(p, r)) = Len(p) + 1
        /\ \A i \in 1..Len(p) : Append(p, r)[i] = p[i]
        /\ Append(p, r)[Len(p) + 1] = r
        /\ Len(p) \in Nat
    BY AppendProperties, LenProperties
  <2> HIDE DEF Q
  <2>2. \A i \in 1..Len(Q) : Append(p, r)[i] = Q[i]
    <3>1. \A i \in 1..Len(Q) : i \in 1..Len(p)
      BY <1>3, <1>6, <2>1
    <3> QED BY <1>6, <2>1, <3>1
  <2>3. Len(Q) <= Len(Append(p, r)) /\ Len(Append(p, r)) > Len(Q)
    BY <1>3, <1>6, <2>1
  <2>4. SubSeq(Append(p, r), 1, Len(Q)) = Q
    BY <1>3, <2>1, <2>2, <2>3, PrefixKept
  <2> QED BY <1>6, <2>1, <2>3, <2>4 DEF Bool!Stream!Report, Q
<1>7. CASE Bool!fFlush
  <2>1. /\ lOldValueUnsent /\ ~lNoValueYet
        /\ lSendQueue' = Append(lSendQueue, Bool!Timed(clock, lOldValue))
        /\ UNCHANGED <<lOldValue, lOldTime, lNoValueYet, table>>
    BY <1>3, <1>7 DEF Bool!fFlush
  <2>2. newest \in Rows /\ newest.lTime = clock /\ newest' = newest
    BY <1>3, <1>4, <2>1, RowFacts
  <2>3. Bool!Queued' = Append(Q, newest)
    BY <1>3, <1>4, <2>1, <2>2, QueuedRows DEF Bool!Queued
  <2>4. Q[Len(Q)] # newest
    <3>1. Q[Len(Q)].lTime < clock /\ Q[Len(Q)].lTime \in Int
      <4>1. Len(Q) \in 1..Len(Q)
        BY <1>3, <2>1, EmptySeq
      <4> QED BY <1>3, <1>4, <1>5, <2>1, <4>1
    <3> QED BY <1>3, <2>2, <3>1
  <2>5. Bool!Stream!Report
    <3> HIDE DEF Q, newest
    <3> QED BY <1>3, <1>6, <2>2, <2>3
  <2>6. Bool!Stream!Unsent
    BY <1>4, <2>1, <2>4 DEF Bool!Stream!Unsent
  <2>7. Bool!Stream!Flush
    BY <2>1, <2>2, <2>5, <2>6 DEF Bool!Stream!Flush
  <2> QED BY <2>7 DEF Bool!Stream!Next
<1>8. ASSUME NEW v \in BOOLEAN, NEW gap \in Gaps, Bool!fStore(v, clock + gap)
      PROVE  Bool!Stream!Next
  <2>1. PICK t, s, a, b, P :
          /\ t = clock + gap /\ s = Bool!Timed(t, v)
          /\ a = Bool!Timed(clock, lOldValue) /\ b = Bool!Timed(t - 1, lOldValue)
          /\ P = IF lOldValueUnsent THEN Append(Append(Q, a), b) ELSE Q
    OBVIOUS
  <2>0. RowsStored(v, t, s, a, b, P)
    BY <1>3, <1>8, <2>1, StoreRows
  <2>2. /\ clock < t /\ t \in Int /\ s \in Rows /\ s.lTime = t /\ a \in Rows /\ b \in Rows /\ P \in Seq(Rows)
        /\ lOldTime' = t /\ table' = table
    BY <2>0 DEF RowsStored
  <2>3. \/ /\ ~lNoValueYet /\ v = lOldValue
           /\ UNCHANGED <<lNoValueYet, lOldValue>> /\ Bool!Queued' = Q
        \/ lNoValueYet' = FALSE /\ lOldValue' = v /\ Bool!Queued' = Append(P, s)
    BY <2>0 DEF RowsStored
  <2>4. newest' = s
    BY <2>1, <2>2, <2>3
  <2>5. Bool!Stream!Fresh(s)
    <3>1. newest # s
      <4>1. newest.lTime <= clock /\ newest.lTime \in Int
        <5>1. newest = Bool!Timed(clock, lOldValue) \/ newest = Bool!Timed(0, FALSE)
          BY <1>3 DEF Bool!NoSample
        <5> HIDE DEF newest
        <5>2. newest.lTime = clock \/ newest.lTime = 0
          BY <5>1 DEF Bool!Timed
        <5> QED BY <1>3, <5>2
      <4> QED BY <1>3, <2>2, <4>1
    <3>2. \A i \in 1..Len(Q) : Q[i] # s
      BY <1>3, <1>5, <2>2
    <3> QED BY <3>1, <3>2 DEF Bool!Stream!Fresh
  <2>6. CASE ~lNoValueYet /\ Bool!Queued' = Q
    <3>1. Bool!Stream!Hold(s)
      BY <1>4, <2>2, <2>4, <2>5, <2>6 DEF Bool!Stream!Hold
    <3> QED BY <2>2, <3>1 DEF Bool!Stream!Next, Rows
  <2>7. CASE Bool!Queued' = Append(P, s)
    <3>1. Len(Q) <= Len(P) /\ \A i \in 1..Len(Q) : P[i] = Q[i]
      <4> HIDE DEF Q
      <4>1. CASE lOldValueUnsent
        <5>1. /\ Append(Q, a) \in Seq(Rows) /\ Len(Append(Q, a)) = Len(Q) + 1
              /\ \A i \in 1..Len(Q) : Append(Q, a)[i] = Q[i]
          BY <1>3, <2>2, AppendProperties
        <5>2. PICK p : p = Append(Q, a)
          OBVIOUS
        <5>3. /\ Len(Append(p, b)) = Len(p) + 1
              /\ \A i \in 1..Len(p) : Append(p, b)[i] = p[i]
          BY <2>2, <5>1, <5>2, AppendProperties
        <5>4. P = Append(p, b)
          BY <2>1, <4>1, <5>2
        <5> QED BY <1>3, <5>1, <5>2, <5>3, <5>4
      <4>2. CASE ~lOldValueUnsent
        BY <1>3, <2>1, <4>2
      <4> QED BY <4>1, <4>2
    <3>2. Bool!Stream!Report
      <4> HIDE DEF Q, newest
      <4> QED BY <1>6, <2>2, <2>4, <2>7, <3>1
    <3>3. Bool!Stream!StoreAndReport(s)
      BY <2>2, <2>4, <2>5, <3>2 DEF Bool!Stream!StoreAndReport
    <3> QED BY <2>2, <3>3 DEF Bool!Stream!Next, Rows
  <2> QED BY <2>3, <2>6, <2>7
<1> QED BY <1>1, <1>2, <1>7, <1>8 DEF Bool!Next, Bool!NothingToFlush

\* measurement<bool> implements ValueStream: also with held samples and repeated rows, what is
\* reported only grows at its end, and a flush reports only what has not been reported.
THEOREM BoolImplementsStream == Spec => ImplementsValueStream
<1> DEFINE Inv == part = "bool" => BoolInv
<1>1. Init => Bool!Stream!Init
  <2>1. Bool!Init => Bool!Stream!Init
    <3>1. <<>> \o <<>> = <<>> /\ Len(<<>>) = 0
      BY EmptySeq, ConcatEmptySeq
    <3> QED BY <3>1 DEF Bool!Init, Bool!Stream!Init, Bool!Queued
  <2> QED BY <2>1 DEF Init
<1>2. Inv /\ [Next]_all => [Bool!Stream!Next]_(Bool!Stream!vars)
  <2>1. part # "bool" /\ UNCHANGED Bool!vars => UNCHANGED Bool!Stream!vars
    BY DEF Bool!vars, Bool!Stream!vars, Bool!Queued
  <2> QED BY <2>1, PartsStep, BoolRefines
<1> QED BY <1>1, <1>2, BoolInvariant, PTL DEF Spec, ImplementsValueStream, Bool!ImplementsValueStream,
                                     Bool!Stream!Spec
=============================================================================
