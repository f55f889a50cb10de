---------------------------- MODULE DeviceProofs ----------------------------
(***************************************************************************)
(* Theorems about the daemons for devices and the firmware, for every      *)
(* value of their constants.  Since a behaviour of DeviceParts is one of   *)
(* one part, a part has lemmas about its own Init and its own steps, and a *)
(* theorem about Spec.                                                     *)
(***************************************************************************)
EXTENDS DeviceParts, Integers, SequenceTheorems, TLAPS

\* Whose turn it is does not change.
LEMMA PartsStep ==
  ASSUME [Next]_all
  PROVE  /\ part' = part
         /\ part = "camera" => Cam!Next \/ UNCHANGED Cam!vars
         /\ part = "power" => Supply!Next \/ UNCHANGED Supply!vars
         /\ part = "buffers" => Buffers!Next \/ UNCHANGED Buffers!vars
         /\ part = "ring" => Ring!Next \/ UNCHANGED Ring!vars
<1>1. CASE UNCHANGED all
  BY <1>1 DEF all, cameraVars, powerVars, buffersVars, ringVars,
              Cam!vars, Supply!vars, Buffers!vars, Ring!vars
<1>2. CASE Next
  BY <1>2 DEF Next
<1> QED BY <1>1, <1>2

-----------------------------------------------------------------------------
(* Sequences that grow at the end and shrink at the beginning *)

Grown(s, t, x) == /\ Len(s) \in Nat /\ DOMAIN s = 1..Len(s)
                  /\ Len(t) = Len(s) + 1 /\ DOMAIN t = 1..(Len(s) + 1)
                  /\ t[Len(s) + 1] = x
                  /\ \A k \in 1..Len(s) : t[k] = s[k]
LEMMA AppendGrows ==
  ASSUME NEW S, NEW s \in Seq(S), NEW x \in S
  PROVE  Append(s, x) \in Seq(S) /\ Grown(s, Append(s, x), x)
BY AppendProperties, LenProperties DEF Grown

Shrunk(s, t) == /\ Len(s) \in Nat \ {0} /\ DOMAIN s = 1..Len(s)
                /\ Len(t) = Len(s) - 1 /\ DOMAIN t = 1..(Len(s) - 1)
                /\ Head(s) = s[1]
                /\ \A k \in 1..(Len(s) - 1) : t[k] = s[k + 1]
LEMMA TailShrinks ==
  ASSUME NEW S, NEW s \in Seq(S), s # <<>>
  PROVE  Tail(s) \in Seq(S) /\ Head(s) \in S /\ Shrunk(s, Tail(s))
<1>1. /\ Tail(s) \in Seq(S) /\ Head(s) \in S /\ Len(Tail(s)) = Len(s) - 1
      /\ \A k \in 1..Len(Tail(s)) : Tail(s)[k] = s[k + 1]
  BY HeadTailProperties
<1>2. Len(s) \in Nat \ {0} /\ DOMAIN s = 1..Len(s) /\ Head(s) = s[1]
  BY LenProperties, EmptySeq
<1>3. DOMAIN Tail(s) = 1..Len(Tail(s))
  BY <1>1, LenProperties
<1> QED BY <1>1, <1>2, <1>3 DEF Shrunk

Increasing(s) == \A k, l \in DOMAIN s : k < l => s[k] < s[l]
LEMMA GrowsInOrder ==
  ASSUME NEW s, NEW t, NEW x \in Int, Grown(s, t, x), Increasing(s),
         \A k \in DOMAIN s : s[k] \in Int /\ s[k] < x
  PROVE  /\ Increasing(t)
         /\ \A k \in DOMAIN t : (k \in DOMAIN s /\ t[k] = s[k]) \/ t[k] = x
         /\ \A k \in DOMAIN s : k \in DOMAIN t /\ t[k] = s[k]
         /\ \E k \in DOMAIN t : t[k] = x
<1>1. /\ \A k \in DOMAIN t : (k \in DOMAIN s /\ t[k] = s[k]) \/ (k = Len(s) + 1 /\ t[k] = x)
      /\ \A k \in DOMAIN s : k \in DOMAIN t /\ t[k] = s[k] /\ k < Len(s) + 1 /\ k \in Int
      /\ Len(s) + 1 \in DOMAIN t /\ t[Len(s) + 1] = x /\ Len(s) + 1 \in Int
  BY DEF Grown
<1>2. ASSUME NEW k \in DOMAIN t, NEW l \in DOMAIN t, k < l PROVE t[k] < t[l]
  <2>1. k \in DOMAIN s
    BY <1>1, <1>2
  <2> QED BY <1>1, <1>2, <2>1 DEF Increasing
<1>3. \E k \in DOMAIN t : t[k] = x
  BY <1>1
<1> QED BY <1>1, <1>2, <1>3 DEF Increasing
LEMMA ShrinksInOrder ==
  ASSUME NEW s, NEW t, Shrunk(s, t), Increasing(s)
  PROVE  /\ Increasing(t) /\ 1 \in DOMAIN s
         /\ \A k \in DOMAIN t : k + 1 \in DOMAIN s /\ t[k] = s[k + 1] /\ s[1] < t[k]
<1>1. /\ \A k \in DOMAIN t : k + 1 \in DOMAIN s /\ t[k] = s[k + 1] /\ 1 < k + 1 /\ k \in Int
      /\ 1 \in DOMAIN s
  BY DEF Shrunk
<1>2. ASSUME NEW k \in DOMAIN t, NEW l \in DOMAIN t, k < l PROVE t[k] < t[l]
  <2>1. k + 1 < l + 1
    BY <1>1, <1>2
  <2> QED BY <1>1, <2>1 DEF Increasing
<1> QED BY <1>1, <1>2 DEF Increasing

-----------------------------------------------------------------------------
(* Rings: k places, of which a reader at r takes the j-th next *)

Place(k, r, j) == IF r + j < k THEN r + j ELSE r + j - k
RingPlaces(k, r) ==
  /\ \A j \in 0..k : Place(k, r, j) \in 0..(k - 1)
  /\ \A j, l \in 0..(k - 1) : j # l => Place(k, r, j) # Place(k, r, l)
  /\ Place(k, r, 0) = r /\ Place(k, r, k) = r
  /\ \A j \in 0..(k - 1) : (Place(k, r, j) + 1) % k = Place(k, r, j + 1)
  /\ (r + 1) % k \in 0..(k - 1)
  /\ \A j \in 0..(k - 1) : Place(k, (r + 1) % k, j) = Place(k, r, j + 1)
LEMMA PlaceFacts ==
  ASSUME NEW k \in Nat \ {0}, NEW r \in 0..(k - 1)
  PROVE  RingPlaces(k, r)
<1>1. \A h \in 0..(k - 1) : (h + 1) % k = IF h + 1 < k THEN h + 1 ELSE 0
  OBVIOUS
<1>2. \A j \in 0..k : Place(k, r, j) \in 0..(k - 1)
  BY DEF Place
<1>3. \A j, l \in 0..(k - 1) : j # l => Place(k, r, j) # Place(k, r, l)
  BY DEF Place
<1>4. \A j \in 0..(k - 1) : (Place(k, r, j) + 1) % k = Place(k, r, j + 1)
  <2>1. ASSUME NEW j \in 0..(k - 1)
        PROVE  (Place(k, r, j) + 1) % k = Place(k, r, j + 1)
    <3>1. PICK h \in 0..(k - 1) : h = Place(k, r, j)
      BY <1>2
    <3> QED BY <1>1, <3>1 DEF Place
  <2> QED BY <2>1
<1>5. (r + 1) % k \in 0..(k - 1)
  BY <1>1
<1>6. \A j \in 0..(k - 1) : Place(k, (r + 1) % k, j) = Place(k, r, j + 1)
  <2>1. PICK h \in 0..(k - 1) : h = (r + 1) % k /\ h = IF r + 1 < k THEN r + 1 ELSE 0
    BY <1>1, <1>5
  <2>2. \A j \in 0..(k - 1) : Place(k, h, j) = Place(k, r, j + 1)
    BY <2>1 DEF Place
  <2> QED BY <2>1, <2>2
<1>7. Place(k, r, 0) = r /\ Place(k, r, k) = r
  BY DEF Place
<1> QED BY <1>2, <1>3, <1>4, <1>5, <1>6, <1>7 DEF RingPlaces

-----------------------------------------------------------------------------
(* PowerSupply *)

\* Who works on the line has the lock, the reader never sets anything, and who has answered
\* does nothing.
LineIsLocked ==
  /\ \A t \in Supply!Thread : psPc[t] \in {"set", "flush", "ask", "read"} => mutex = t
  /\ psPc["reader"] \in {"idle", "lock", "flush", "ask", "read"}
  /\ \A t \in Supply!Requester : response[t] # "none" => psPc[t] = "idle"

\* All answers to come and those that came are values in h.
AnswersAmong(h) ==
  /\ \A k \in DOMAIN onTheWay : onTheWay[k][2] \in h
  /\ \A k \in DOMAIN received : received[k][2] \in h

\* Another thread that asks for the same quantity.
AsksToo(t, u) == u # t /\ psPc[u] \in {"ask", "read"} /\ quantity[u] = quantity[t]

\* A thread reads back what the supply has or had since its command; what others read of the
\* same quantity before it answers is not older.
ReadsBack(t) ==
  /\ Supply!Commanded(t) => setting[quantity[t]] \in had[t]
  /\ ~strange[t] =>
       /\ psPc[t] \in {"ask", "read"} => AnswersAmong(had[t])
       /\ psPc[t] = "respond" => current[quantity[t]] \in had[t]
       /\ psPc[t] = "respond" =>
            \A u \in Supply!Thread : AsksToo(t, u) => AnswersAmong(had[t])
       /\ response[t] = "done." => goal[t] \in had[t]
AllReadBack == \A t \in Supply!Requester : ReadsBack(t)

SupplyInv == Supply!TypeOK /\ LineIsLocked /\ AllReadBack

LEMMA SupplyInit == Supply!Init => SupplyInv
<1> SUFFICES ASSUME Supply!Init PROVE SupplyInv
  OBVIOUS
<1>1. Value # {} /\ Quantity # {} /\ {MaxRequests, MaxReads, MaxFaults} \subseteq Nat
  BY PartsAssumption DEF Supply!SupplyAssumption
<1>2. PICK v \in Value : v = CHOOSE x \in Value : TRUE
  BY <1>1
<1>3. PICK q \in Quantity : q = CHOOSE x \in Quantity : TRUE
  BY <1>1
<1>4. /\ setting = [x \in Quantity |-> v] /\ current = [x \in Quantity |-> v]
      /\ goal = [t \in Supply!Requester |-> v]
      /\ quantity = [t \in Supply!Thread |-> q]
      /\ onTheWay = <<>> /\ received = <<>> /\ mutex = Supply!NoThread
      /\ psPc = [t \in Supply!Thread |-> "idle"]
      /\ response = [t \in Supply!Requester |-> "none"]
      /\ had = [t \in Supply!Requester |-> {}]
      /\ strange = [t \in Supply!Requester |-> FALSE]
      /\ requests = 0 /\ reads = 0 /\ faults = 0
  BY <1>2, <1>3 DEF Supply!Init
<1>5. Supply!TypeOK
  <2>1. <<>> \in Seq(Quantity \X Value) /\ 0 \in 0..MaxRequests /\ 0 \in 0..MaxReads
        /\ 0 \in 0..MaxFaults
    BY <1>1
  <2> QED BY <1>4, <2>1 DEF Supply!TypeOK
<1>6. LineIsLocked /\ AllReadBack
  BY <1>4 DEF LineIsLocked, AllReadBack, ReadsBack, Supply!Commanded, Supply!Thread,
              Supply!Requester
<1> QED BY <1>5, <1>6 DEF SupplyInv

LEMMA SupplyType ==
  ASSUME Supply!TypeOK, Supply!Next
  PROVE  Supply!TypeOK'
<1> USE DEF Supply!TypeOK, Supply!line, Supply!history, Supply!Goes
<1>1. {MaxRequests, MaxReads, MaxFaults} \subseteq Nat /\ Garbage \notin Value
  BY PartsAssumption DEF Supply!SupplyAssumption
<1>2. Supply!Requester \subseteq Supply!Thread /\ "reader" \in Supply!Thread
  BY DEF Supply!Thread
<1>0. ASSUME NEW q \in Quantity, NEW v \in Value
      PROVE  Supply!Seen(q, v) \in [Supply!Requester -> SUBSET Value]
  <2>1. \A h \in SUBSET Value, b \in BOOLEAN : h \cup (IF b THEN {v} ELSE {}) \in SUBSET Value
    OBVIOUS
  <2>2. \A t \in Supply!Requester : had[t] \in SUBSET Value
    OBVIOUS
  <2> QED BY <2>1, <2>2 DEF Supply!Seen
<1>3. ASSUME NEW t \in Supply!Thread, NEW v \in Value \cup {Garbage}, Supply!Keep(t, v),
             {onTheWay', received'} \subseteq Seq(Quantity \X Value),
             strange' \in [Supply!Requester -> BOOLEAN]
      PROVE  Supply!TypeOK'
  BY <1>3 DEF Supply!Keep
<1>4. ASSUME NEW t \in Supply!Thread, Supply!Lock(t) PROVE Supply!TypeOK'
  BY <1>4 DEF Supply!Lock
<1>5. ASSUME NEW t \in Supply!Requester, Supply!WriteCommand(t) PROVE Supply!TypeOK'
  <2>1. setting' \in [Quantity -> Value] /\ faults' \in 0..MaxFaults
    BY <1>1, <1>2, <1>5 DEF Supply!WriteCommand
  <2>2. PICK q \in Quantity, v \in Value : q = quantity[t] /\ v = setting'[q]
    BY <1>2, <2>1
  <2>3. had' = [Supply!Seen(q, v) EXCEPT ![t] = {v}]
    BY <1>5, <2>2 DEF Supply!WriteCommand
  <2>4. had' \in [Supply!Requester -> SUBSET Value]
    BY <1>0, <2>3
  <2>5. /\ psPc' = [psPc EXCEPT ![t] = "lock"] /\ mutex' = Supply!NoThread
        /\ UNCHANGED <<onTheWay, received, quantity, goal, current, response, strange,
                       requests, reads>>
    BY <1>5 DEF Supply!WriteCommand
  <2> QED BY <1>2, <2>1, <2>4, <2>5
<1>6. ASSUME NEW t \in Supply!Thread, Supply!fFlushReceiveBuffer(t) PROVE Supply!TypeOK'
  BY <1>6 DEF Supply!fFlushReceiveBuffer, Supply!StrangeFor
<1>7. ASSUME NEW t \in Supply!Thread, Supply!Ask(t) PROVE Supply!TypeOK'
  <2>1. PICK x \in Quantity \X Value : x = <<quantity[t], setting[quantity[t]]>>
    OBVIOUS
  <2>2. onTheWay' \in Seq(Quantity \X Value)
    <3>1. onTheWay \in Seq(Quantity \X Value) /\ Append(onTheWay, x) \in Seq(Quantity \X Value)
      BY AppendProperties
    <3>2. onTheWay' = onTheWay \/ onTheWay' = Append(onTheWay, x)
      BY <1>7, <2>1 DEF Supply!Ask
    <3> QED BY <3>1, <3>2
  <2>3. faults' \in 0..MaxFaults
    BY <1>1, <1>7 DEF Supply!Ask
  <2>4. psPc' = [psPc EXCEPT ![t] = "read"] /\ UNCHANGED <<setting, received, mutex, quantity,
              goal, current, response, had, strange, requests, reads>>
    BY <1>7 DEF Supply!Ask
  <2> QED BY <2>2, <2>3, <2>4
<1>8. ASSUME NEW t \in Supply!Thread, Supply!fRead(t) PROVE Supply!TypeOK'
  <2>1. Head(received)[2] \in Value /\ Tail(received) \in Seq(Quantity \X Value)
    BY <1>8 DEF Supply!fRead
  <2>2. Supply!Keep(t, Head(received)[2]) /\ received' = Tail(received)
        /\ onTheWay' = onTheWay /\ strange' = strange
    BY <1>8 DEF Supply!fRead
  <2> QED BY <1>3, <2>1, <2>2
<1>9. ASSUME NEW t \in Supply!Thread, Supply!Timeout(t) PROVE Supply!TypeOK'
  <2>1. PICK v \in Value \cup {Garbage} : Supply!Keep(t, v)
    BY <1>9 DEF Supply!Timeout
  <2>2. strange' \in [Supply!Requester -> BOOLEAN]
    BY <1>9 DEF Supply!Timeout, Supply!StrangeFor
  <2> QED BY <1>3, <1>9, <2>1, <2>2 DEF Supply!Timeout
<1>10. ASSUME NEW q \in Quantity, Supply!BeginReading(q) PROVE Supply!TypeOK'
  BY <1>1, <1>2, <1>10 DEF Supply!BeginReading
<1>11. ASSUME NEW t \in Supply!Requester, NEW q \in Quantity, NEW v \in Value,
              Supply!fProcessRequest(t, q, v)
       PROVE  Supply!TypeOK'
  <2>1. /\ requests' \in 0..MaxRequests /\ goal' \in [Supply!Requester -> Value]
        /\ response' \in [Supply!Requester -> {"none", "done.", "failed"}]
    BY <1>1, <1>11 DEF Supply!fProcessRequest
  <2>2. /\ had' \in [Supply!Requester -> SUBSET Value]
        /\ strange' \in [Supply!Requester -> BOOLEAN]
    BY <1>11 DEF Supply!fProcessRequest
  <2>3. /\ quantity' \in [Supply!Thread -> Quantity]
        /\ psPc' \in [Supply!Thread -> {"idle", "lock", "lockToSet", "set", "flush", "ask",
                                        "read", "respond"}]
    BY <1>2, <1>11 DEF Supply!fProcessRequest
  <2> QED BY <1>11, <2>1, <2>2, <2>3 DEF Supply!fProcessRequest
<1>12. ASSUME NEW q \in Quantity, NEW v \in Value, Supply!Panel(q, v)
       PROVE  Supply!TypeOK'
  <2>1. had' \in [Supply!Requester -> SUBSET Value]
    BY <1>0, <1>12 DEF Supply!Panel
  <2> QED BY <1>1, <1>12, <2>1 DEF Supply!Panel
<1>13. CASE Supply!Arrive
  <2>1. Head(onTheWay) \in Quantity \X Value /\ Tail(onTheWay) \in Seq(Quantity \X Value)
    BY <1>13 DEF Supply!Arrive
  <2> QED BY <1>13, <2>1 DEF Supply!Arrive
<1>14. ASSUME NEW t \in Supply!Requester, Supply!Respond(t) PROVE Supply!TypeOK'
  BY <1>2, <1>14 DEF Supply!Respond
<1> QED BY <1>4, <1>5, <1>6, <1>7, <1>8, <1>9, <1>10, <1>11, <1>12, <1>13, <1>14
        DEF Supply!Next

\* Steps that leave the answers alone, as those of a thread that begins, locks, answers.
LEMMA SupplyQuiet ==
  ASSUME Supply!TypeOK, LineIsLocked, AllReadBack,
         UNCHANGED <<onTheWay, received, setting, current, had, strange, goal>>,
         NEW t \in Supply!Thread,
         \A u \in Supply!Thread \ {t} : psPc'[u] = psPc[u] /\ quantity'[u] = quantity[u],
         \A u \in Supply!Requester \ {t} : response'[u] = response[u],
         psPc'[t] \notin {"ask", "read", "respond"},
         t \in Supply!Requester =>
            /\ Supply!Commanded(t)' => Supply!Commanded(t) /\ quantity'[t] = quantity[t]
            /\ response'[t] = "done." =>
                 response[t] = "done." \/ (psPc[t] = "respond" /\ current[quantity[t]] = goal[t])
  PROVE  AllReadBack'
<1> SUFFICES ASSUME NEW r \in Supply!Requester PROVE ReadsBack(r)'
  BY DEF AllReadBack, Supply!Requester
<1> USE DEF AnswersAmong, AsksToo
<1>1. ReadsBack(r) /\ r \in Supply!Thread
  BY DEF AllReadBack, Supply!Thread
<1>2. CASE r = t
  BY <1>1, <1>2 DEF ReadsBack, Supply!Commanded
<1>3. CASE r # t
  <2>1. \A u \in Supply!Thread : AsksToo(r, u)' => AsksToo(r, u)
    BY <1>1, <1>3
  <2>2. /\ psPc'[r] = psPc[r] /\ quantity'[r] = quantity[r] /\ response'[r] = response[r]
        /\ had'[r] = had[r] /\ strange'[r] = strange[r]
        /\ AnswersAmong(had[r])' <=> AnswersAmong(had[r])
    BY <1>1, <1>3
  <2> HIDE DEF AnswersAmong, AsksToo
  <2>3. Supply!Commanded(r)' <=> Supply!Commanded(r)
    BY <2>2 DEF Supply!Commanded
  <2> QED BY <1>1, <2>1, <2>2, <2>3 DEF ReadsBack
<1> QED BY <1>2, <1>3

\* A quantity is set, by a command or at the panel: who waits for it sees it.
LEMMA SupplySet ==
  ASSUME Supply!TypeOK, LineIsLocked, AllReadBack,
         NEW q \in Quantity, setting' \in [Quantity -> Value],
         \A x \in Quantity \ {q} : setting'[x] = setting[x],
         UNCHANGED <<onTheWay, received, current, strange, goal, response, quantity>>,
         NEW T \in SUBSET Supply!Requester,
         \A u \in Supply!Thread \ T : psPc'[u] = psPc[u],
         \A u \in T : /\ psPc'[u] = "lock" /\ response[u] = "none"
                      /\ had'[u] = {setting'[quantity[u]]},
         \A u \in Supply!Requester \ T : had'[u] = Supply!Seen(q, setting'[q])[u]
  PROVE  AllReadBack'
<1> SUFFICES ASSUME NEW r \in Supply!Requester PROVE ReadsBack(r)'
  BY DEF AllReadBack, Supply!Requester
<1>1. ReadsBack(r) /\ r \in Supply!Thread /\ Supply!Requester \subseteq Supply!Thread
      /\ quantity[r] \in Quantity
  BY DEF AllReadBack, Supply!Thread, Supply!TypeOK
<1>2. CASE r \in T
  BY <1>1, <1>2 DEF ReadsBack, Supply!Commanded
<1>3. CASE r \notin T
  <2>1. had[r] \subseteq had'[r]
        /\ (Supply!Commanded(r) /\ quantity[r] = q => setting'[q] \in had'[r])
    BY <1>3 DEF Supply!Seen
  <2>2. \A u \in Supply!Thread : AsksToo(r, u)' => AsksToo(r, u)
    BY <1>1 DEF AsksToo
  <2>3. /\ psPc'[r] = psPc[r] /\ quantity'[r] = quantity[r] /\ response'[r] = response[r]
        /\ strange'[r] = strange[r] /\ current'[quantity[r]] = current[quantity[r]]
        /\ goal'[r] = goal[r] /\ (Supply!Commanded(r)' <=> Supply!Commanded(r))
    BY <1>1, <1>3 DEF Supply!Commanded
  <2>4. AnswersAmong(had[r]) => AnswersAmong(had[r])'
    BY <2>1 DEF AnswersAmong
  <2>5. Supply!Commanded(r) => setting'[quantity[r]] \in had'[r]
    BY <1>1, <2>1 DEF ReadsBack
  <2> QED BY <1>1, <2>1, <2>2, <2>3, <2>4, <2>5 DEF ReadsBack
<1> QED BY <1>2, <1>3

\* A step of the thread with the line that leaves the settings and the measurements alone:
\* the answers are still among what somebody had who began before.
LEMMA SupplyLine ==
  ASSUME Supply!TypeOK, LineIsLocked, AllReadBack,
         NEW t \in Supply!Thread, psPc[t] \in {"flush", "ask"}, psPc'[t] \in {"ask", "read"},
         \A u \in Supply!Thread \ {t} : psPc'[u] = psPc[u],
         UNCHANGED <<setting, current, goal, response, quantity, had>>,
         \A r \in Supply!Requester : strange[r] => strange'[r],
         \A r \in Supply!Requester :
            ~strange'[r] /\ Supply!Commanded(r) /\ quantity[r] = quantity[t]
              /\ (psPc[t] = "ask" => AnswersAmong(had[r])) => AnswersAmong(had[r])'
  PROVE  AllReadBack'
<1> SUFFICES ASSUME NEW r \in Supply!Requester PROVE ReadsBack(r)'
  BY DEF AllReadBack, Supply!Requester
<1>1. /\ ReadsBack(r) /\ r \in Supply!Thread
      /\ mutex = t /\ \A u \in Supply!Thread \ {t} : psPc[u] \notin {"set", "flush", "ask", "read"}
  BY DEF AllReadBack, Supply!Thread, Supply!TypeOK, LineIsLocked
<1>2. ~strange'[r] => ~strange[r]
  OBVIOUS
<1>3. CASE r = t
  <2>1. Supply!Commanded(r) /\ Supply!Commanded(r)' /\ psPc'[r] # "respond"
    BY <1>3 DEF Supply!Commanded
  <2>2. ~strange'[r] => AnswersAmong(had[r])'
    BY <1>1, <1>2, <1>3, <2>1 DEF ReadsBack
  <2> QED BY <1>1, <1>2, <1>3, <2>1, <2>2 DEF ReadsBack
<1>4. CASE r # t
  <2>1. psPc'[r] = psPc[r] /\ psPc'[r] \notin {"ask", "read"}
        /\ (Supply!Commanded(r)' <=> Supply!Commanded(r))
    BY <1>1, <1>4 DEF Supply!Commanded
  <2>2. ASSUME NEW u \in Supply!Thread, psPc'[r] = "respond", ~strange'[r], AsksToo(r, u)'
        PROVE  AnswersAmong(had[r])'
    <3>1. u = t /\ quantity[r] = quantity[t] /\ Supply!Commanded(r)
      BY <1>1, <1>4, <2>1, <2>2 DEF AsksToo, Supply!Commanded
    <3>2. psPc[t] = "ask" => AnswersAmong(had[r])
      BY <1>1, <1>2, <1>4, <2>1, <2>2, <3>1 DEF ReadsBack, AsksToo
    <3> QED BY <2>2, <3>1, <3>2
  <2> QED BY <1>1, <1>2, <2>1, <2>2 DEF ReadsBack
<1> QED BY <1>3, <1>4

\* What a thread has read is kept as the value of its quantity.
LEMMA SupplyKeep ==
  ASSUME Supply!TypeOK, LineIsLocked, AllReadBack,
         NEW t \in Supply!Thread, NEW v \in Value \cup {Garbage}, psPc[t] = "read",
         Supply!Keep(t, v),
         \A r \in Supply!Requester : strange[r] => strange'[r],
         \A r \in Supply!Requester, h \in SUBSET Value :
            ~strange'[r] /\ AnswersAmong(h) => v \in h
  PROVE  AllReadBack'
<1> SUFFICES ASSUME NEW r \in Supply!Requester PROVE ReadsBack(r)'
  BY DEF AllReadBack, Supply!Requester
<1>0. Garbage \notin Value
  BY PartsAssumption DEF Supply!SupplyAssumption
<1>1. /\ ReadsBack(r) /\ r \in Supply!Thread /\ had[r] \in SUBSET Value
      /\ mutex = t /\ \A u \in Supply!Thread \ {t} : psPc[u] \notin {"set", "flush", "ask", "read"}
      /\ quantity[t] \in Quantity /\ quantity[r] \in Quantity /\ current \in [Quantity -> Value]
      /\ psPc \in [Supply!Thread -> {"idle", "lock", "lockToSet", "set", "flush", "ask", "read",
                                     "respond"}]
  BY DEF AllReadBack, Supply!Thread, Supply!TypeOK, LineIsLocked
<1>2. ~strange'[r] => ~strange[r]
  OBVIOUS
<1>3. /\ psPc'[t] = (IF t \in Supply!Requester THEN "respond" ELSE "idle")
      /\ \A u \in Supply!Thread \ {t} : psPc'[u] = psPc[u]
      /\ current' = IF v = Garbage THEN current ELSE [current EXCEPT ![quantity[t]] = v]
      /\ UNCHANGED <<setting, quantity, goal, response, had>>
  BY <1>1 DEF Supply!Keep, Supply!Goes
<1>4. \A u \in Supply!Thread : psPc'[u] \notin {"ask", "read"}
  BY <1>1, <1>3
<1>5. Supply!Commanded(r)' <=> Supply!Commanded(r)
  BY <1>1, <1>3 DEF Supply!Commanded
<1>6. ASSUME ~strange'[r], psPc'[r] = "respond" PROVE current'[quantity[r]] \in had[r]
  <2>1. quantity[r] = quantity[t] => AnswersAmong(had[r])
    <3>1. CASE r = t
      BY <1>1, <1>2, <1>6, <3>1 DEF ReadsBack
    <3>2. CASE r # t
      BY <1>1, <1>2, <1>3, <1>6, <3>2 DEF ReadsBack, AsksToo
    <3> QED BY <3>1, <3>2
  <2>2. quantity[r] = quantity[t] => v \in had[r] /\ v # Garbage
    BY <1>0, <1>1, <1>6, <2>1
  <2>3. CASE quantity[r] = quantity[t]
    BY <1>1, <1>3, <2>2, <2>3
  <2>4. CASE quantity[r] # quantity[t]
    <3>1. current'[quantity[r]] = current[quantity[r]] /\ r # t /\ psPc[r] = "respond"
      BY <1>1, <1>3, <1>6, <2>4
    <3> QED BY <1>1, <1>2, <1>6, <3>1 DEF ReadsBack
  <2> QED BY <2>3, <2>4
<1> QED BY <1>1, <1>2, <1>3, <1>4, <1>5, <1>6 DEF ReadsBack, AsksToo

\* A step with the line, the reader's and that of a request.
LEMMA SupplyStep ==
  ASSUME SupplyInv, Supply!Next \/ UNCHANGED Supply!vars
  PROVE  SupplyInv'
<1>0. /\ Supply!TypeOK /\ LineIsLocked /\ AllReadBack
      /\ Supply!Thread = {"listener", "scheduled", "reader"}
      /\ Supply!Requester = {"listener", "scheduled"}
      /\ Supply!NoThread = "nobody"
      /\ psPc \in [Supply!Thread -> {"idle", "lock", "lockToSet", "set", "flush", "ask",
                                     "read", "respond"}]
      /\ quantity \in [Supply!Thread -> Quantity]
      /\ response \in [Supply!Requester -> {"none", "done.", "failed"}]
      /\ strange \in [Supply!Requester -> BOOLEAN]
      /\ onTheWay \in Seq(Quantity \X Value) /\ received \in Seq(Quantity \X Value)
  BY DEF SupplyInv, Supply!TypeOK, Supply!Thread, Supply!Requester, Supply!NoThread
<1> USE DEF Supply!line, Supply!history, Supply!Goes
<1>1. CASE UNCHANGED Supply!vars
  BY <1>1 DEF Supply!vars, SupplyInv, Supply!TypeOK, LineIsLocked, AllReadBack, ReadsBack,
              AnswersAmong, AsksToo, Supply!Commanded
<1>2. CASE Supply!Next
  <2> SUFFICES LineIsLocked' /\ AllReadBack'
    BY <1>0, <1>2, SupplyType DEF SupplyInv
  <2>1. ASSUME NEW q \in Quantity, Supply!BeginReading(q)
        PROVE  LineIsLocked' /\ AllReadBack'
    <3>1. /\ psPc' = [psPc EXCEPT !["reader"] = "lock"]
          /\ quantity' = [quantity EXCEPT !["reader"] = q]
          /\ UNCHANGED <<onTheWay, received, setting, current, had, strange, goal, response,
                         mutex>>
      BY <2>1 DEF Supply!BeginReading
    <3>2. LineIsLocked'
      BY <1>0, <3>1 DEF LineIsLocked
    <3> QED BY <1>0, <3>1, <3>2, SupplyQuiet
  <2>2. ASSUME NEW t \in Supply!Requester, NEW q \in Quantity, NEW v \in Value,
               Supply!fProcessRequest(t, q, v)
        PROVE  LineIsLocked' /\ AllReadBack'
    <3>1. /\ psPc' = [psPc EXCEPT ![t] = "lockToSet"]
          /\ quantity' = [quantity EXCEPT ![t] = q] /\ response' = [response EXCEPT ![t] = "none"]
          /\ UNCHANGED <<onTheWay, received, setting, current, mutex>>
          /\ \A u \in Supply!Requester \ {t} :
               had'[u] = had[u] /\ strange'[u] = strange[u] /\ goal'[u] = goal[u]
          /\ t \in Supply!Thread
      BY <1>0, <2>2 DEF Supply!fProcessRequest, Supply!TypeOK
    <3>2. LineIsLocked'
      BY <1>0, <3>1 DEF LineIsLocked
    <3>3. ASSUME NEW r \in Supply!Requester PROVE ReadsBack(r)'
      <4>1. ReadsBack(r)
        BY <1>0 DEF AllReadBack
      <4>2. CASE r = t
        BY <1>0, <3>1, <4>2 DEF ReadsBack, Supply!Commanded
      <4>3. CASE r # t
        BY <1>0, <3>1, <4>1, <4>3 DEF ReadsBack, Supply!Commanded, AsksToo, AnswersAmong
      <4> QED BY <4>2, <4>3
    <3> QED BY <3>2, <3>3 DEF AllReadBack, Supply!Requester
  <2>3. ASSUME NEW t \in Supply!Thread, Supply!Lock(t)
        PROVE  LineIsLocked' /\ AllReadBack'
    <3>1. /\ psPc' = [psPc EXCEPT ![t] = IF psPc[t] = "lock" THEN "flush" ELSE "set"]
          /\ psPc[t] \in {"lock", "lockToSet"} /\ mutex = "nobody" /\ mutex' = t
          /\ UNCHANGED <<onTheWay, received, setting, current, had, strange, goal, response,
                         quantity>>
      BY <1>0, <2>3 DEF Supply!Lock
    <3>2. LineIsLocked'
      BY <1>0, <3>1 DEF LineIsLocked
    <3>3. /\ Supply!Commanded(t)' => Supply!Commanded(t) /\ quantity'[t] = quantity[t]
          /\ response'[t] = "done." => response[t] = "done."
      BY <1>0, <3>1 DEF Supply!Commanded
    <3>4. \A u \in Supply!Thread \ {t} : psPc'[u] = psPc[u] /\ quantity'[u] = quantity[u]
      BY <1>0, <3>1
    <3>5. psPc'[t] \notin {"ask", "read", "respond"}
      BY <1>0, <3>1
    <3>6. AllReadBack'
      BY <1>0, <3>1, <3>3, <3>4, <3>5, SupplyQuiet
    <3> QED BY <3>2, <3>6
  <2>4. ASSUME NEW t \in Supply!Requester, Supply!WriteCommand(t)
        PROVE  LineIsLocked' /\ AllReadBack'
    <3>1. /\ psPc' = [psPc EXCEPT ![t] = "lock"] /\ mutex' = "nobody" /\ psPc[t] = "set"
          /\ t \in Supply!Thread
          /\ UNCHANGED <<onTheWay, received, current, strange, goal, response, quantity>>
      BY <1>0, <2>4 DEF Supply!WriteCommand
    <3>2. LineIsLocked'
      BY <1>0, <3>1 DEF LineIsLocked
    <3>3. PICK q \in Quantity : q = quantity[t]
      BY <1>0, <3>1
    <3>4. /\ setting' \in [Quantity -> Value]
          /\ \A x \in Quantity \ {q} : setting'[x] = setting[x]
      BY <1>0, <2>4, <3>3 DEF Supply!WriteCommand, Supply!TypeOK
    <3>5. had' = [Supply!Seen(q, setting'[q]) EXCEPT ![t] = {setting'[q]}]
      BY <2>4, <3>3 DEF Supply!WriteCommand
    <3>6. /\ had'[t] = {setting'[quantity[t]]}
          /\ \A u \in Supply!Requester \ {t} : had'[u] = Supply!Seen(q, setting'[q])[u]
      BY <3>3, <3>5 DEF Supply!Seen
    <3>7. response[t] = "none"
      BY <1>0, <3>1 DEF LineIsLocked
    <3>8. PICK T \in SUBSET Supply!Requester : T = {t}
      OBVIOUS
    <3>9. /\ \A u \in Supply!Thread \ T : psPc'[u] = psPc[u]
          /\ \A u \in T : /\ psPc'[u] = "lock" /\ response[u] = "none"
                          /\ had'[u] = {setting'[quantity[u]]}
          /\ \A u \in Supply!Requester \ T : had'[u] = Supply!Seen(q, setting'[q])[u]
      BY <1>0, <3>1, <3>6, <3>7, <3>8
    <3>10. AllReadBack'
      BY <1>0, <3>1, <3>4, <3>9, SupplySet
    <3> QED BY <3>2, <3>10
  <2>5. ASSUME NEW q \in Quantity, NEW v \in Value, Supply!Panel(q, v)
        PROVE  LineIsLocked' /\ AllReadBack'
    <3>1. /\ UNCHANGED <<onTheWay, received, current, strange, goal, response, quantity, psPc,
                         mutex>>
          /\ setting' = [setting EXCEPT ![q] = v] /\ had' = Supply!Seen(q, v)
      BY <2>5 DEF Supply!Panel
    <3>2. LineIsLocked'
      BY <1>0, <3>1 DEF LineIsLocked
    <3>3. /\ setting' \in [Quantity -> Value] /\ setting'[q] = v
          /\ \A x \in Quantity \ {q} : setting'[x] = setting[x]
      BY <1>0, <3>1 DEF Supply!TypeOK
    <3>4. PICK T \in SUBSET Supply!Requester : T = {}
      OBVIOUS
    <3>5. /\ \A u \in Supply!Thread \ T : psPc'[u] = psPc[u]
          /\ \A u \in T : /\ psPc'[u] = "lock" /\ response[u] = "none"
                          /\ had'[u] = {setting'[quantity[u]]}
          /\ \A u \in Supply!Requester \ T : had'[u] = Supply!Seen(q, setting'[q])[u]
      BY <3>1, <3>3, <3>4
    <3>6. UNCHANGED <<onTheWay, received, current, strange, goal, response, quantity>>
      BY <3>1
    <3>7. AllReadBack'
      BY <1>0, <3>3, <3>5, <3>6, SupplySet
    <3> QED BY <3>2, <3>7
  <2>6. ASSUME NEW t \in Supply!Thread, Supply!fFlushReceiveBuffer(t)
        PROVE  LineIsLocked' /\ AllReadBack'
    <3>1. /\ psPc' = [psPc EXCEPT ![t] = "ask"] /\ psPc[t] = "flush"
          /\ received' = <<>> /\ onTheWay' = onTheWay
          /\ strange' = Supply!StrangeFor(IF onTheWay = <<>> THEN {} ELSE Supply!Requester)
          /\ UNCHANGED <<setting, current, goal, response, quantity, had, mutex>>
      BY <2>6 DEF Supply!fFlushReceiveBuffer
    <3>2. LineIsLocked'
      BY <1>0, <3>1 DEF LineIsLocked
    <3>3. /\ \A r \in Supply!Requester : strange[r] => strange'[r]
          /\ \A r \in Supply!Requester : ~strange'[r] => onTheWay' = <<>> /\ received' = <<>>
      BY <3>1 DEF Supply!StrangeFor
    <3>4. DOMAIN <<>> = {}
      OBVIOUS
    <3>5. \A r \in Supply!Requester : ~strange'[r] => AnswersAmong(had[r])'
      BY <3>3, <3>4 DEF AnswersAmong
    <3>6. psPc[t] \in {"flush", "ask"} /\ psPc'[t] \in {"ask", "read"}
          /\ \A u \in Supply!Thread \ {t} : psPc'[u] = psPc[u]
      BY <1>0, <3>1
    <3>7. AllReadBack'
      BY <1>0, <3>1, <3>3, <3>5, <3>6, SupplyLine
    <3> QED BY <3>2, <3>7
  <2>7. ASSUME NEW t \in Supply!Thread, Supply!Ask(t)
        PROVE  LineIsLocked' /\ AllReadBack'
    <3>1. /\ psPc' = [psPc EXCEPT ![t] = "read"] /\ psPc[t] = "ask"
          /\ UNCHANGED <<received, setting, current, goal, response, quantity, had, mutex,
                         strange>>
      BY <2>7 DEF Supply!Ask
    <3>2. LineIsLocked'
      BY <1>0, <3>1 DEF LineIsLocked
    <3>3. PICK x \in Quantity \X Value : x = <<quantity[t], setting[quantity[t]]>>
      BY <1>0 DEF Supply!TypeOK
    <3>4. onTheWay' = onTheWay \/ onTheWay' = Append(onTheWay, x)
      BY <2>7, <3>3 DEF Supply!Ask
    <3>5. /\ DOMAIN Append(onTheWay, x) = 1..(Len(onTheWay) + 1)
          /\ DOMAIN onTheWay = 1..Len(onTheWay) /\ Len(onTheWay) \in Nat
          /\ Append(onTheWay, x)[Len(onTheWay) + 1] = x
          /\ \A k \in 1..Len(onTheWay) : Append(onTheWay, x)[k] = onTheWay[k]
      BY <1>0, AppendProperties, LenProperties
    <3>6. ASSUME NEW r \in Supply!Requester, Supply!Commanded(r), quantity[r] = quantity[t],
                 AnswersAmong(had[r])
          PROVE  AnswersAmong(had[r])'
      <4>1. x[2] \in had[r] /\ had'[r] = had[r]
        BY <1>0, <3>1, <3>3, <3>6 DEF AllReadBack, ReadsBack
      <4>2. CASE onTheWay' = onTheWay
        BY <3>1, <3>6, <4>2 DEF AnswersAmong
      <4>3. CASE onTheWay' = Append(onTheWay, x)
        BY <3>1, <3>5, <3>6, <4>1, <4>3 DEF AnswersAmong
      <4> QED BY <3>4, <4>2, <4>3
    <3>7. psPc[t] \in {"flush", "ask"} /\ psPc'[t] \in {"ask", "read"}
          /\ \A u \in Supply!Thread \ {t} : psPc'[u] = psPc[u]
      BY <1>0, <3>1
    <3>8. AllReadBack'
      BY <1>0, <3>1, <3>6, <3>7, SupplyLine
    <3> QED BY <3>2, <3>8
  <2>8. ASSUME NEW t \in Supply!Thread, Supply!fRead(t)
        PROVE  LineIsLocked' /\ AllReadBack'
    <3>1. /\ psPc[t] = "read" /\ received # <<>> /\ strange' = strange
          /\ Supply!Keep(t, Head(received)[2])
      BY <2>8 DEF Supply!fRead
    <3>2. LineIsLocked'
      BY <1>0, <3>1 DEF LineIsLocked, Supply!Keep
    <3>3. Head(received) = received[1] /\ 1 \in DOMAIN received
          /\ Head(received) \in Quantity \X Value
      BY <1>0, <3>1, TailShrinks DEF Shrunk
    <3>4. PICK v \in Value : v = Head(received)[2] /\ v = received[1][2]
      BY <3>3
    <3>5. \A r \in Supply!Requester, h \in SUBSET Value :
             ~strange'[r] /\ AnswersAmong(h) => v \in h
      BY <3>3, <3>4 DEF AnswersAmong
    <3>6. AllReadBack'
      BY <1>0, <3>1, <3>4, <3>5, SupplyKeep
    <3> QED BY <3>2, <3>6
  <2>9. ASSUME NEW t \in Supply!Thread, Supply!Timeout(t)
        PROVE  LineIsLocked' /\ AllReadBack'
    <3>1. PICK v \in Value \cup {Garbage} : Supply!Keep(t, v)
      BY <2>9 DEF Supply!Timeout
    <3>2. psPc[t] = "read" /\ \A r \in Supply!Requester : strange'[r]
      BY <2>9 DEF Supply!Timeout, Supply!StrangeFor
    <3>3. LineIsLocked'
      BY <1>0, <3>1, <3>2 DEF LineIsLocked, Supply!Keep
    <3>4. AllReadBack'
      BY <1>0, <3>1, <3>2, SupplyKeep
    <3> QED BY <3>3, <3>4
  <2>10. ASSUME NEW t \in Supply!Requester, Supply!Respond(t)
         PROVE  LineIsLocked' /\ AllReadBack'
    <3>1. /\ psPc' = [psPc EXCEPT ![t] = "idle"] /\ psPc[t] = "respond" /\ t \in Supply!Thread
          /\ response' = [response EXCEPT ![t] = IF current[quantity[t]] = goal[t]
                                                 THEN "done." ELSE "failed"]
          /\ UNCHANGED <<onTheWay, received, setting, current, had, strange, goal, quantity,
                         mutex>>
      BY <1>0, <2>10 DEF Supply!Respond
    <3>2. LineIsLocked'
      BY <1>0, <3>1 DEF LineIsLocked
    <3>3. /\ \A u \in Supply!Thread \ {t} : psPc'[u] = psPc[u] /\ quantity'[u] = quantity[u]
          /\ \A u \in Supply!Requester \ {t} : response'[u] = response[u]
          /\ psPc'[t] \notin {"ask", "read", "respond"}
          /\ (response'[t] = "done." => current[quantity[t]] = goal[t])
      BY <1>0, <3>1
    <3>4. ~Supply!Commanded(t)'
      BY <1>0, <3>1 DEF Supply!Commanded
    <3>5. AllReadBack'
      BY <1>0, <3>1, <3>3, <3>4, SupplyQuiet
    <3> QED BY <3>2, <3>5
  <2>11. CASE Supply!Arrive
    <3>1. /\ UNCHANGED <<setting, current, goal, response, quantity, had, mutex, strange, psPc>>
          /\ onTheWay # <<>> /\ received' = Append(received, Head(onTheWay))
          /\ onTheWay' = Tail(onTheWay)
      BY <2>11 DEF Supply!Arrive
    <3>2. LineIsLocked'
      BY <1>0, <3>1 DEF LineIsLocked
    <3>3. Shrunk(onTheWay, onTheWay') /\ Head(onTheWay) \in Quantity \X Value
      BY <1>0, <3>1, TailShrinks
    <3>4. Grown(received, received', Head(onTheWay))
      BY <1>0, <3>1, <3>3, AppendGrows
    <3>5. ASSUME NEW r \in Supply!Requester, AnswersAmong(had[r])
          PROVE  AnswersAmong(had[r])'
      <4>1. /\ Head(onTheWay) = onTheWay[1] /\ 1 \in DOMAIN onTheWay
            /\ \A k \in DOMAIN onTheWay' : k + 1 \in DOMAIN onTheWay
                                           /\ onTheWay'[k] = onTheWay[k + 1]
        BY <3>3 DEF Shrunk
      <4>2. \A k \in DOMAIN received' : received'[k] = Head(onTheWay)
                                      \/ (k \in DOMAIN received /\ received'[k] = received[k])
        BY <3>4 DEF Grown
      <4> QED BY <3>1, <3>5, <4>1, <4>2 DEF AnswersAmong
    <3>6. AllReadBack'
      BY <1>0, <3>1, <3>5 DEF AllReadBack, ReadsBack, AsksToo, Supply!Commanded
    <3> QED BY <3>2, <3>6
  <2> QED BY <1>2, <2>1, <2>2, <2>3, <2>4, <2>5, <2>6, <2>7, <2>8, <2>9, <2>10, <2>11
          DEF Supply!Next
<1> QED BY <1>1, <1>2

\* What is answered with done was set in the power supply at some time between the command
\* and the answer, however the reader and the two threads that execute requests share its
\* line and its measurements and whatever is set at its panel, unless an answer came late or
\* never (fProcessRequest, daemons/korad_d.cpp).
THEOREM DoneIsAlwaysSet == Spec => []DoneIsSet
<1> DEFINE Inv == part = "power" => SupplyInv
<1>1. Init => Inv
  BY SupplyInit DEF Init
<1>2. Inv /\ [Next]_all => Inv'
  BY PartsStep, SupplyStep
<1>3. Inv => DoneIsSet
  BY DEF DoneIsSet, SupplyInv, AllReadBack, ReadsBack, Supply!DoneIsSet
<1> QED BY <1>1, <1>2, <1>3, PTL DEF Spec

-----------------------------------------------------------------------------
(* Camera *)

\* Before a recording the light is off or somebody else's; during one it is also on because
\* main found it dark, and main will find it dark again.
LightInv ==
  /\ main \in {"wait", "begin", "stopped"} => ~recording /\ (light => requested \/ reconfigured)
  /\ main \in {"look", "film", "end"} /\ light => requested \/ reconfigured \/ darkness > threshold

\* The files in the order in which they are converted: those that are, the one at which the
\* thread is, those in the queue.
OrderInv ==
  /\ Increasing(converted) /\ Increasing(queue)
  /\ \A k \in DOMAIN converted, l \in DOMAIN queue : converted[k] < queue[l]
  /\ worker = "convert" =>
       /\ file \in 1..files
       /\ \A k \in DOMAIN converted : converted[k] < file
       /\ \A l \in DOMAIN queue : file < queue[l]
  /\ \A f \in 1..files : f \in raw <=> \A k \in DOMAIN converted : converted[k] # f

\* A file more in the queue is a notification that is yet to come or one that was missed, and
\* each file has one.
BacklogInv ==
  LET coming == IF worker = "wait" /\ notified THEN 1 ELSE 0
  IN Len(queue) <= missed + coming /\ missed + coming <= files

CameraInv == Cam!TypeOK /\ LightInv /\ OrderInv /\ BacklogInv

LEMMA CameraInit == Cam!Init => CameraInv
<1> SUFFICES ASSUME Cam!Init PROVE CameraInv
  OBVIOUS
<1>1. Threshold # {} /\ {MaxFiles, MaxEdges, MaxEdits} \subseteq Nat
  BY PartsAssumption DEF Cam!CameraAssumption
<1>2. threshold \in Threshold
  BY <1>1 DEF Cam!Init
<1>3. /\ <<>> \in Seq(1..0) /\ 0 \in 0..(2 * MaxFiles) /\ 0 \in 0..MaxFiles
      /\ 0 \in 0..MaxEdges /\ 0 \in 0..MaxEdits /\ DOMAIN <<>> = {} /\ Len(<<>>) = 0
  BY <1>1
<1>4. Cam!TypeOK
  BY <1>2, <1>3 DEF Cam!Init, Cam!TypeOK
<1>5. LightInv /\ OrderInv /\ BacklogInv
  BY <1>3 DEF Cam!Init, LightInv, OrderInv, BacklogInv, Increasing
<1> QED BY <1>4, <1>5 DEF CameraInv

\* The files: a recording, a wait that ends, a conversion that succeeds or fails.
LEMMA FilesStep ==
  ASSUME Cam!TypeOK, OrderInv, BacklogInv, Cam!fRecord \/ Cam!fDequeue \/ Cam!Convert
  PROVE  /\ queue' \in Seq(1..files') /\ converted' \in Seq(1..files') /\ raw' \subseteq 1..files'
         /\ files' \in 0..MaxFiles /\ {file', missed'} \subseteq 0..(2 * MaxFiles)
         /\ OrderInv' /\ BacklogInv'
<1>1. /\ MaxFiles \in Nat /\ files \in 0..MaxFiles
      /\ queue \in Seq(1..files) /\ converted \in Seq(1..files)
      /\ raw \subseteq 1..files /\ file \in 0..(2 * MaxFiles) /\ missed \in 0..(2 * MaxFiles)
      /\ notified \in BOOLEAN
      /\ Len(queue) \in Nat /\ Len(converted) \in Nat
      /\ DOMAIN queue = 1..Len(queue) /\ DOMAIN converted = 1..Len(converted)
      /\ \A k \in DOMAIN queue : queue[k] \in 1..files
      /\ \A k \in DOMAIN converted : converted[k] \in 1..files
  <2>1. /\ MaxFiles \in Nat /\ files \in 0..MaxFiles
        /\ queue \in Seq(1..files) /\ converted \in Seq(1..files)
        /\ raw \subseteq 1..files /\ file \in 0..(2 * MaxFiles) /\ missed \in 0..(2 * MaxFiles)
        /\ notified \in BOOLEAN
    BY PartsAssumption DEF Cam!TypeOK, Cam!CameraAssumption
  <2> QED BY <2>1, LenProperties
<1>2. CASE UNCHANGED <<worker, file, notified, queue, files, raw, converted, missed>>
  BY <1>1, <1>2 DEF OrderInv, BacklogInv, Increasing
<1>3. CASE Cam!fRecord /\ files' = files + 1
  <2>1. PICK n \in 1..(files + 1) : n = files + 1
    BY <1>1
  <2>2. /\ files < MaxFiles /\ raw' = raw \cup {n} /\ queue' = Append(queue, n)
        /\ notified' = (notified \/ worker = "wait")
        /\ missed' = IF worker = "wait" /\ ~notified THEN missed ELSE missed + 1
        /\ UNCHANGED <<worker, file, converted>>
    BY <1>1, <1>3, <2>1 DEF Cam!fRecord
  <2>3. queue \in Seq(1..(files + 1)) /\ converted \in Seq(1..(files + 1))
    <3>1. 1..files \subseteq 1..(files + 1)
      BY <1>1
    <3> QED BY <1>1, <3>1, SeqMonotonic
  <2>4. queue' \in Seq(1..(files + 1)) /\ Grown(queue, queue', n)
    BY <2>2, <2>3, AppendGrows
  <2>5. BacklogInv' /\ missed' \in 0..(2 * MaxFiles)
    <3>1. Len(queue') = Len(queue) + 1
      BY <2>4 DEF Grown
    <3>2. CASE worker = "wait" /\ ~notified
      <4>1. notified' = TRUE /\ worker' = "wait" /\ missed' = missed
        BY <2>2, <3>2
      <4>2. Len(queue) <= missed /\ missed <= files
        BY <1>1, <3>2 DEF BacklogInv
      <4>3. Len(queue') <= missed' + 1 /\ missed' + 1 <= files'
        BY <1>1, <1>3, <3>1, <4>1, <4>2
      <4> QED BY <1>1, <4>1, <4>3 DEF BacklogInv
    <3>3. CASE ~(worker = "wait" /\ ~notified)
      BY <1>1, <1>3, <2>2, <3>1, <3>3 DEF BacklogInv
    <3> QED BY <3>2, <3>3
  <2>6. OrderInv'
    <3>0. /\ n \in Int /\ \A k \in DOMAIN queue : queue[k] \in Int /\ queue[k] < n
          /\ \A k \in DOMAIN converted : converted[k] < n
          /\ worker = "convert" => file \in 1..(files + 1) /\ file < n
      BY <1>1, <2>1 DEF OrderInv
    <3>4. /\ Increasing(queue')
          /\ \A l \in DOMAIN queue' : (l \in DOMAIN queue /\ queue'[l] = queue[l]) \/ queue'[l] = n
      BY <2>4, <3>0, GrowsInOrder DEF OrderInv
    <3>1. /\ Increasing(queue')
          /\ \A k \in DOMAIN converted, l \in DOMAIN queue' : converted[k] < queue'[l]
      BY <3>0, <3>4 DEF OrderInv
    <3>2. worker = "convert" => file \in 1..(files + 1) /\ \A l \in DOMAIN queue' : file < queue'[l]
      BY <3>0, <3>4 DEF OrderInv
    <3>3. \A f \in 1..(files + 1) : f \in raw' <=> \A k \in DOMAIN converted : converted[k] # f
      BY <1>1, <2>1, <2>2 DEF OrderInv
    <3> QED BY <1>3, <2>2, <3>1, <3>2, <3>3 DEF OrderInv
  <2> QED BY <1>1, <1>3, <2>1, <2>2, <2>3, <2>4, <2>5, <2>6
<1>4. CASE Cam!fDequeue /\ worker' = "check" /\ UNCHANGED <<file, queue>>
  BY <1>1, <1>4 DEF Cam!fDequeue, OrderInv, BacklogInv
<1>5. CASE Cam!fDequeue /\ worker' = "convert"
  <2>1. /\ queue # <<>> /\ file' = Head(queue) /\ queue' = Tail(queue) /\ missed' = missed
        /\ worker = "wait" /\ UNCHANGED <<files, raw, converted>>
    BY <1>5 DEF Cam!fDequeue
  <2>2. queue' \in Seq(1..files) /\ file' \in 1..files /\ Shrunk(queue, queue') /\ file' = queue[1]
    BY <1>1, <2>1, TailShrinks DEF Shrunk
  <2>3. BacklogInv'
    BY <1>1, <1>5, <2>1, <2>2 DEF BacklogInv, Shrunk
  <2>4. /\ Increasing(queue')
        /\ \A k \in DOMAIN converted, l \in DOMAIN queue' : converted[k] < queue'[l]
        /\ \A k \in DOMAIN converted : converted[k] < file'
        /\ \A l \in DOMAIN queue' : file' < queue'[l]
    BY <2>2, ShrinksInOrder DEF OrderInv
  <2>5. OrderInv'
    BY <1>5, <2>1, <2>2, <2>4 DEF OrderInv
  <2> QED BY <1>1, <2>1, <2>2, <2>3, <2>5
<1>6. CASE Cam!Convert /\ converted' = Append(converted, file) /\ raw' = raw \ {file}
  <2>0. worker = "convert" /\ worker' = "check" /\ UNCHANGED <<notified, file, queue, files, missed>>
    BY <1>6 DEF Cam!Convert
  <2>2. file \in 1..files
    BY <2>0 DEF OrderInv
  <2>1. /\ worker = "convert" /\ converted' = Append(converted, file) /\ worker' = "check"
        /\ UNCHANGED <<notified, file, queue, files, missed>>
    BY <1>6, <2>0
  <2>3. converted' \in Seq(1..files) /\ Grown(converted, converted', file)
    BY <1>1, <2>1, <2>2, AppendGrows
  <2>4. /\ Increasing(converted')
        /\ \A k \in DOMAIN converted', l \in DOMAIN queue : converted'[k] < queue[l]
        /\ \A f \in 1..files : f \in raw' <=> \A k \in DOMAIN converted' : converted'[k] # f
    <3>1. /\ file \in Int /\ \A k \in DOMAIN converted : converted[k] \in Int /\ converted[k] < file
          /\ Increasing(converted)
      BY <1>1, <2>1, <2>2 DEF OrderInv
    <3>2. /\ Increasing(converted')
          /\ \A k \in DOMAIN converted' :
               (k \in DOMAIN converted /\ converted'[k] = converted[k]) \/ converted'[k] = file
          /\ \A k \in DOMAIN converted : k \in DOMAIN converted' /\ converted'[k] = converted[k]
          /\ \E k \in DOMAIN converted' : converted'[k] = file
      BY <2>3, <3>1, GrowsInOrder
    <3>3. \A k \in DOMAIN converted', l \in DOMAIN queue : converted'[k] < queue[l]
      BY <2>1, <3>2 DEF OrderInv
    <3>4. \A f \in 1..files : f \in raw' <=> \A k \in DOMAIN converted' : converted'[k] # f
      BY <1>6, <3>2 DEF OrderInv
    <3> QED BY <3>2, <3>3, <3>4
  <2>5. OrderInv'
    BY <2>1, <2>4 DEF OrderInv
  <2>6. BacklogInv'
    BY <2>1 DEF BacklogInv
  <2> QED BY <1>1, <1>6, <2>1, <2>3, <2>5, <2>6
<1>7. CASE Cam!Convert /\ UNCHANGED <<converted, raw>>
  BY <1>1, <1>7 DEF Cam!Convert, OrderInv, BacklogInv
<1>8. \/ Cam!fRecord /\ files' = files + 1
      \/ UNCHANGED <<worker, file, notified, queue, files, raw, converted, missed>>
      \/ Cam!fDequeue /\ worker' = "check" /\ UNCHANGED <<file, queue>>
      \/ Cam!fDequeue /\ worker' = "convert"
      \/ Cam!Convert
  BY DEF Cam!fRecord, Cam!fDequeue
<1> QED BY <1>2, <1>3, <1>4, <1>5, <1>6, <1>7, <1>8 DEF Cam!Convert

LEMMA CameraStep ==
  ASSUME CameraInv, Cam!Next \/ UNCHANGED Cam!vars
  PROVE  CameraInv'
<1> USE DEF CameraInv, Cam!post, Cam!lamp, Cam!detector
<1>1. {MaxFiles, MaxEdges, MaxEdits} \subseteq Nat /\ Darkness \subseteq Nat
      /\ Threshold \subseteq Nat
  BY PartsAssumption DEF Cam!CameraAssumption
<1>2. CASE UNCHANGED Cam!vars
  BY <1>2 DEF Cam!vars, Cam!TypeOK, LightInv, OrderInv, BacklogInv, Increasing
<1>3. CASE Cam!fRecord \/ Cam!fDequeue \/ Cam!Convert
  <2>1. /\ OrderInv' /\ BacklogInv'
        /\ queue' \in Seq(1..files') /\ converted' \in Seq(1..files') /\ raw' \subseteq 1..files'
        /\ files' \in 0..MaxFiles /\ {file', missed'} \subseteq 0..(2 * MaxFiles)
    BY <1>3, FilesStep
  <2>2. UNCHANGED <<pin, edge, motion, sensor, threshold, light, recording, woken, darkness,
                    stop, requested, reconfigured, edges, edits>>
    BY <1>3 DEF Cam!fRecord, Cam!fDequeue, Cam!Convert
  <2>3. /\ (main = "film" /\ main' = "look") \/ main' = main
        /\ worker' \in {"check", "wait", "convert", "stopped"} /\ notified' \in BOOLEAN
    BY <1>3 DEF Cam!fRecord, Cam!fDequeue, Cam!Convert, Cam!TypeOK
  <2>4. Cam!TypeOK'
    BY <2>1, <2>2, <2>3 DEF Cam!TypeOK
  <2>5. LightInv'
    BY <2>2, <2>3 DEF LightInv
  <2> QED BY <2>1, <2>4, <2>5
<1>4. ASSUME UNCHANGED <<worker, file, notified, queue, files, raw, converted, missed>>
      PROVE  OrderInv' /\ BacklogInv'
  BY <1>4 DEF OrderInv, BacklogInv, Increasing
<1>5. CASE Cam!CheckStop
  <2>1. OrderInv' /\ BacklogInv'
    BY <1>5 DEF Cam!CheckStop, OrderInv, BacklogInv, Increasing
  <2>2. Cam!TypeOK' /\ LightInv'
    BY <1>5 DEF Cam!CheckStop, Cam!TypeOK, LightInv
  <2> QED BY <2>1, <2>2
<1>6. CASE Cam!PinChanges \/ Cam!StopRequested \/ Cam!fProcessData \/ Cam!fReadCurrentValue
  <2>1. Cam!TypeOK'
    <3>1. CASE Cam!PinChanges
      BY <1>1, <3>1 DEF Cam!PinChanges, Cam!TypeOK
    <3>2. CASE Cam!StopRequested
      BY <3>2 DEF Cam!StopRequested, Cam!TypeOK
    <3>3. CASE Cam!fProcessData
      BY <3>3 DEF Cam!fProcessData, Cam!TypeOK
    <3>4. CASE Cam!fReadCurrentValue
      BY <3>4 DEF Cam!fReadCurrentValue, Cam!TypeOK
    <3> QED BY <1>6, <3>1, <3>2, <3>3, <3>4
  <2> QED BY <1>4, <1>6, <2>1 DEF Cam!PinChanges, Cam!StopRequested, Cam!fProcessData,
                                  Cam!fReadCurrentValue, LightInv
<1>7. ASSUME NEW t \in Threshold, Cam!Reconfigure(t) PROVE CameraInv'
  <2>1. Cam!TypeOK'
    BY <1>1, <1>7 DEF Cam!Reconfigure, Cam!TypeOK
  <2> QED BY <1>4, <1>7, <2>1 DEF Cam!Reconfigure, LightInv
<1>8. ASSUME NEW b \in BOOLEAN, Cam!fProcessRequest(b) PROVE CameraInv'
  <2>1. Cam!TypeOK'
    BY <1>1, <1>8 DEF Cam!fProcessRequest, Cam!TypeOK
  <2> QED BY <1>4, <1>8, <2>1 DEF Cam!fProcessRequest, LightInv
<1>9. CASE Cam!fWaitForChange \/ Cam!BeginRecording \/ Cam!StillMoving \/ Cam!EndRecording
  <2>1. Cam!TypeOK'
    BY <1>1, <1>9 DEF Cam!fWaitForChange, Cam!BeginRecording, Cam!StillMoving,
                      Cam!EndRecording, Cam!TypeOK
  <2>2. LightInv'
    BY <1>1, <1>9 DEF Cam!fWaitForChange, Cam!BeginRecording, Cam!StillMoving,
                      Cam!EndRecording, Cam!TypeOK, LightInv
  <2> QED BY <1>4, <1>9, <2>1, <2>2 DEF Cam!fWaitForChange, Cam!BeginRecording,
                                        Cam!StillMoving, Cam!EndRecording
<1> QED BY <1>2, <1>3, <1>5, <1>6, <1>7, <1>8, <1>9 DEF Cam!Next

\* When main of the camera waits for motion the light is off, unless a request switched it
\* or the threshold was changed while it was on (daemons/raspicamd.cpp).
THEOREM LightIsAlwaysReleased == Spec => []LightIsReleased
<1> DEFINE Inv == part = "camera" => CameraInv
<1>1. Init => Inv
  BY CameraInit DEF Init
<1>2. Inv /\ [Next]_all => Inv'
  BY PartsStep, CameraStep
<1>3. Inv => LightIsReleased
  BY DEF LightIsReleased, Cam!LightIsReleased, CameraInv, LightInv
<1> QED BY <1>1, <1>2, <1>3, PTL DEF Spec

\* Each recorded file lies there as it was filmed or as it was converted, once and in order,
\* and the files that wait while the converting thread waits too are not more than the
\* notifications it missed (fRecord and fPostProcess, daemons/raspicamd.cpp; messageQueue).
THEOREM RecordingsAlwaysPass == Spec => []RecordingsPass
<1> DEFINE Inv == part = "camera" => CameraInv
<1>1. Init => Inv
  BY CameraInit DEF Init
<1>2. Inv /\ [Next]_all => Inv'
  BY PartsStep, CameraStep
<1>3. CameraInv => Cam!RecordingsPass
  <2> SUFFICES ASSUME CameraInv PROVE Cam!RecordingsPass
    OBVIOUS
  <2>1. Cam!RecordingsKept
    BY DEF CameraInv, OrderInv, Increasing, Cam!RecordingsKept, Cam!ToSet
  <2>2. Cam!BacklogIsMissed
    <3>1. Len(queue) \in Nat /\ missed \in Int
      BY DEF CameraInv, Cam!TypeOK
    <3> QED BY <3>1 DEF CameraInv, BacklogInv, Cam!BacklogIsMissed
  <2> QED BY <2>1, <2>2 DEF Cam!RecordingsPass
<1>4. Inv => RecordingsPass
  BY <1>3 DEF RecordingsPass
<1> QED BY <1>1, <1>2, <1>4, PTL DEF Spec

-----------------------------------------------------------------------------
(* PulseBuffers *)

Entry == [pulses : Seq(1..trains), valid : BOOLEAN]
BuffersType ==
  /\ Buffers!TypeOK
  /\ \A b \in Buffers!Index : gBuffer[b] \in Entry
  /\ complete \in Seq(1..trains) /\ decoded \in Seq(SUBSET (1..trains))

behind == Len(complete) - Len(decoded)
At(j) == gBuffer[Place(kNBuffers, readBufferIndex, j)]
Whole(b, n) == b.valid /\ Len(b.pulses) > 0 /\ \A k \in DOMAIN b.pulses : b.pulses[k] = n
Filling(b) == ~b.valid /\ \A k \in DOMAIN b.pulses : b.pulses[k] = train
Unused(b) == ~b.valid /\ DOMAIN b.pulses = {}

\* From where main reads on come the buffers of the trains that are complete and not yet
\* decoded, then that of the train in the air; the others are empty.
BuffersRing ==
  ~lapped =>
    /\ behind \in 0..kNBuffers /\ gWriteBufferIndex = Place(kNBuffers, readBufferIndex, behind)
    /\ \A j \in 0..(behind - 1) : Whole(At(j), complete[Len(decoded) + 1 + j])
    /\ behind < kNBuffers => Filling(At(behind))
    /\ \A j \in (behind + 1)..(kNBuffers - 1) : Unused(At(j))
    /\ \A k \in DOMAIN decoded : decoded[k] = {complete[k]}
    /\ pbPc = "decode" => /\ behind > 0 /\ seen \subseteq {complete[Len(decoded) + 1]}
                          /\ index > 1 => seen # {}

BuffersInv == BuffersType /\ BuffersRing

BuffersShape ==
  /\ kNBuffers \in Nat \ {0} /\ kNBuffers > 1 /\ kSize \in Nat /\ kMinEdges \in Nat
  /\ kSize > 1 /\ MaxTrains \in Nat /\ MaxGlitches \in Nat
  /\ Buffers!Index = 0..(kNBuffers - 1)
  /\ gWriteBufferIndex \in Buffers!Index /\ readBufferIndex \in Buffers!Index
  /\ DOMAIN gBuffer = Buffers!Index
  /\ \A b \in Buffers!Index : /\ gBuffer[b].pulses \in Seq(1..trains)
                               /\ gBuffer[b].valid \in BOOLEAN
                               /\ Len(gBuffer[b].pulses) \in Nat
                               /\ Len(gBuffer[b].pulses) < kSize
                               /\ DOMAIN gBuffer[b].pulses = 1..Len(gBuffer[b].pulses)
  /\ trains \in Nat /\ trains <= MaxTrains /\ train \in 0..trains
  /\ complete \in Seq(1..trains) /\ decoded \in Seq(SUBSET (1..trains))
  /\ Len(complete) \in Nat /\ Len(decoded) \in Nat
  /\ DOMAIN complete = 1..Len(complete) /\ DOMAIN decoded = 1..Len(decoded)
  /\ index \in 1..kSize /\ seen \subseteq 1..trains /\ lapped \in BOOLEAN
  /\ pbPc \in {"look", "decode"} /\ glitches \in 0..MaxGlitches
LEMMA BuffersFacts ==
  ASSUME BuffersType
  PROVE  BuffersShape
<1>1. /\ kNBuffers \in Nat \ {0} /\ kNBuffers > 1 /\ kSize \in Nat /\ kMinEdges \in Nat
      /\ kSize > 1 /\ MaxTrains \in Nat /\ MaxGlitches \in Nat
  BY PartsAssumption DEF Buffers!BuffersAssumption
<1>2. /\ Buffers!Index = 0..(kNBuffers - 1)
      /\ gWriteBufferIndex \in Buffers!Index /\ readBufferIndex \in Buffers!Index
      /\ DOMAIN gBuffer = Buffers!Index
      /\ trains \in 0..MaxTrains /\ train \in 0..trains
      /\ complete \in Seq(1..trains) /\ decoded \in Seq(SUBSET (1..trains))
      /\ index \in 1..kSize /\ seen \subseteq 1..trains /\ lapped \in BOOLEAN
      /\ pbPc \in {"look", "decode"} /\ glitches \in 0..MaxGlitches
  BY DEF BuffersType, Buffers!TypeOK, Buffers!Index
<1>3. ASSUME NEW b \in Buffers!Index
      PROVE  /\ gBuffer[b].pulses \in Seq(1..trains)
             /\ gBuffer[b].valid \in BOOLEAN
             /\ Len(gBuffer[b].pulses) \in Nat
             /\ Len(gBuffer[b].pulses) < kSize
             /\ DOMAIN gBuffer[b].pulses = 1..Len(gBuffer[b].pulses)
  <2>1. gBuffer[b].pulses \in Seq(1..trains) /\ gBuffer[b].valid \in BOOLEAN
    BY <1>3 DEF BuffersType, Entry
  <2>2. Len(gBuffer[b].pulses) < kSize
    BY <1>3 DEF BuffersType, Buffers!TypeOK
  <2> QED BY <2>1, <2>2, LenProperties
<1>4. /\ Len(complete) \in Nat /\ Len(decoded) \in Nat
      /\ DOMAIN complete = 1..Len(complete) /\ DOMAIN decoded = 1..Len(decoded)
  BY <1>2, LenProperties
<1> QED BY <1>1, <1>2, <1>3, <1>4 DEF BuffersShape

LEMMA BuffersInit == Buffers!Init => BuffersInv
<1> SUFFICES ASSUME Buffers!Init PROVE BuffersInv
  OBVIOUS
<1>1. /\ kNBuffers \in Nat \ {0} /\ kSize \in Nat /\ kSize > 1 /\ MaxTrains \in Nat
      /\ MaxGlitches \in Nat /\ kNBuffers > 1
  BY PartsAssumption DEF Buffers!BuffersAssumption
<1>2. /\ DOMAIN gBuffer = 0..(kNBuffers - 1)
      /\ \A b \in 0..(kNBuffers - 1) : gBuffer[b] = [pulses |-> <<>>, valid |-> FALSE]
      /\ gWriteBufferIndex = 0 /\ readBufferIndex = 0 /\ pbPc = "look" /\ index = 1 /\ seen = {}
      /\ train = 0 /\ trains = 0 /\ complete = <<>> /\ decoded = <<>> /\ lapped = FALSE
      /\ glitches = 0
  BY DEF Buffers!Init, Buffers!Index, Buffers!Empty
<1>3. Len(<<>>) = 0 /\ DOMAIN <<>> = {} /\ <<>> \in Seq(1..0) /\ <<>> \in Seq(SUBSET (1..0))
  OBVIOUS
<1>9. \A b \in Buffers!Index : /\ gBuffer[b] \in Entry /\ Len(gBuffer[b].pulses) < kSize
                               /\ gBuffer[b].valid \in BOOLEAN
  <2>1. <<>> \in Seq(1..trains)
    BY <1>2, <1>3
  <2>2. ASSUME NEW b \in Buffers!Index
        PROVE  gBuffer[b] = [pulses |-> <<>>, valid |-> FALSE]
    BY <1>2, <2>2 DEF Buffers!Index
  <2>3. [pulses |-> <<>>, valid |-> FALSE] \in Entry
    BY <2>1 DEF Entry
  <2>4. /\ [pulses |-> <<>>, valid |-> FALSE].pulses = <<>>
        /\ [pulses |-> <<>>, valid |-> FALSE].valid = FALSE
    OBVIOUS
  <2>5. Len(<<>>) < kSize
    BY <1>1, <1>3
  <2>6. ASSUME NEW b \in Buffers!Index
        PROVE  /\ gBuffer[b] \in Entry /\ Len(gBuffer[b].pulses) < kSize
               /\ gBuffer[b].valid \in BOOLEAN
    <3>1. gBuffer[b].pulses = <<>> /\ gBuffer[b].valid = FALSE
      BY <2>2, <2>4
    <3> QED BY <2>2, <2>3, <2>5, <3>1
  <2> QED BY <2>6
<1>4. Buffers!TypeOK
  <2>1. /\ 0 \in 0..(kNBuffers - 1) /\ 1 \in 1..kSize /\ 0 \in 0..MaxTrains /\ 0 \in 0..0
        /\ 0 \in 0..MaxGlitches
    BY <1>1
  <2> QED BY <1>2, <1>9, <2>1 DEF Buffers!TypeOK, Buffers!Index
<1>5. BuffersType
  BY <1>2, <1>3, <1>4, <1>9 DEF BuffersType
<1>6. behind = 0 /\ 0 \in 0..kNBuffers /\ \A j \in 0..(kNBuffers - 1) : Place(kNBuffers, 0, j) = j
  BY <1>1, <1>2, <1>3 DEF behind, Place
<1>7. \A j \in 0..(kNBuffers - 1) : At(j) = [pulses |-> <<>>, valid |-> FALSE]
  BY <1>2, <1>6 DEF At
<1>8. BuffersRing
  BY <1>1, <1>2, <1>3, <1>6, <1>7 DEF BuffersRing, Filling, Unused, Whole
<1> QED BY <1>5, <1>8 DEF BuffersInv

\* The buffers that have not been decoded, as a step leaves them that writes into one.
LEMMA OneBufferChanges ==
  ASSUME BuffersType, NEW w \in Buffers!Index, NEW e \in Entry, Len(e.pulses) < kSize,
         gBuffer' = [gBuffer EXCEPT ![w] = e], trains' = trains
  PROVE  /\ DOMAIN gBuffer' = Buffers!Index /\ gBuffer'[w] = e
         /\ \A b \in Buffers!Index : b # w => gBuffer'[b] = gBuffer[b]
         /\ \A b \in Buffers!Index : /\ gBuffer'[b] \in Entry'
                                      /\ Len(gBuffer'[b].pulses) < kSize
                                      /\ gBuffer'[b].valid \in BOOLEAN
<1>1. DOMAIN gBuffer = Buffers!Index
  BY BuffersFacts DEF BuffersShape
<1>2. DOMAIN gBuffer' = Buffers!Index /\ gBuffer'[w] = e
  BY <1>1
<1>3. \A b \in Buffers!Index : b # w => gBuffer'[b] = gBuffer[b]
  BY <1>1
<1>4. Entry' = Entry
  BY DEF Entry
<1>5. e.valid \in BOOLEAN
  BY DEF Entry
<1>6. \A b \in Buffers!Index : /\ gBuffer[b] \in Entry /\ Len(gBuffer[b].pulses) < kSize
                               /\ gBuffer[b].valid \in BOOLEAN
  BY BuffersFacts DEF BuffersType, BuffersShape
<1> QED BY <1>2, <1>3, <1>4, <1>5, <1>6

\* The places of the ring are different, and each is one of them.
AtShape(next) ==
  /\ \A j \in 0..kNBuffers : Place(kNBuffers, readBufferIndex, j) \in Buffers!Index
  /\ Place(kNBuffers, readBufferIndex, 0) = readBufferIndex
  /\ Place(kNBuffers, readBufferIndex, kNBuffers) = readBufferIndex
  /\ At(0) = gBuffer[readBufferIndex] /\ At(kNBuffers) = gBuffer[readBufferIndex]
  /\ \A j, l \in 0..(kNBuffers - 1) :
       j # l => Place(kNBuffers, readBufferIndex, j) # Place(kNBuffers, readBufferIndex, l)
  /\ \A j \in 0..(kNBuffers - 1) :
       Buffers!NextIndex(Place(kNBuffers, readBufferIndex, j)) = Place(kNBuffers, readBufferIndex, j + 1)
  /\ next \in Buffers!Index
  /\ \A j \in 0..(kNBuffers - 1) :
       Place(kNBuffers, next, j) = Place(kNBuffers, readBufferIndex, j + 1)
LEMMA AtFacts ==
  ASSUME BuffersType
  PROVE  AtShape(Buffers!NextIndex(readBufferIndex))
<1>1. /\ kNBuffers \in Nat \ {0} /\ readBufferIndex \in 0..(kNBuffers - 1)
      /\ Buffers!Index = 0..(kNBuffers - 1)
  BY BuffersFacts DEF BuffersShape
<1>2. RingPlaces(kNBuffers, readBufferIndex)
  BY <1>1, PlaceFacts
<1>3. \A h : Buffers!NextIndex(h) = (h + 1) % kNBuffers
  BY DEF Buffers!NextIndex
<1>4. At(0) = gBuffer[readBufferIndex] /\ At(kNBuffers) = gBuffer[readBufferIndex]
  BY <1>2 DEF RingPlaces, At
<1> QED BY <1>1, <1>2, <1>3, <1>4 DEF RingPlaces, AtShape

\* Where a buffer is not valid in spite of the index, the ring is not full.
LEMMA NotFull ==
  ASSUME BuffersType, BuffersRing, ~lapped, ~gBuffer[gWriteBufferIndex].valid
  PROVE  behind \in 0..(kNBuffers - 1) /\ gWriteBufferIndex = Place(kNBuffers, readBufferIndex, behind)
<1>1. AtShape(Buffers!NextIndex(readBufferIndex)) /\ kNBuffers \in Nat \ {0}
  BY AtFacts, BuffersFacts DEF BuffersShape
<1>2. behind \in 0..kNBuffers /\ gWriteBufferIndex = Place(kNBuffers, readBufferIndex, behind)
  BY DEF BuffersRing
<1>3. behind # kNBuffers
  <2> SUFFICES ASSUME behind = kNBuffers PROVE FALSE
    OBVIOUS
  <2>1. gWriteBufferIndex = readBufferIndex
    BY <1>1, <1>2 DEF AtShape
  <2>2. Whole(At(0), complete[Len(decoded) + 1 + 0])
    <3>1. 0 \in 0..(behind - 1)
      BY <1>1, <1>2
    <3> QED BY <3>1 DEF BuffersRing
  <2> QED BY <1>1, <2>1, <2>2 DEF AtShape, Whole
<1> QED BY <1>1, <1>2, <1>3

\* And a step that writes into it changes no other.
LEMMA CurrentChanges ==
  ASSUME BuffersType, BuffersRing, ~lapped, NEW w, w = gWriteBufferIndex, ~gBuffer[w].valid,
         NEW n, n = behind,
         NEW e \in Entry, Len(e.pulses) < kSize, gBuffer' = [gBuffer EXCEPT ![w] = e],
         trains' = trains, readBufferIndex' = readBufferIndex
  PROVE  /\ At(n)' = e /\ At(n) = gBuffer[w]
         /\ \A j \in 0..(kNBuffers - 1) : j # n => At(j)' = At(j)
<1>1. n \in 0..(kNBuffers - 1) /\ w = Place(kNBuffers, readBufferIndex, n)
  BY NotFull
<1>2. AtShape(Buffers!NextIndex(readBufferIndex)) /\ kNBuffers \in Nat /\ w \in Buffers!Index
  BY AtFacts, BuffersFacts DEF BuffersShape
<1>3. \A j \in 0..(kNBuffers - 1) :
        /\ Place(kNBuffers, readBufferIndex, j) \in Buffers!Index
        /\ j # n => Place(kNBuffers, readBufferIndex, j) # w
  BY <1>1, <1>2 DEF AtShape
<1>4. \A j : At(j)' = gBuffer'[Place(kNBuffers, readBufferIndex, j)]
  BY DEF At
<1>5. gBuffer'[w] = e /\ \A b \in Buffers!Index : b # w => gBuffer'[b] = gBuffer[b]
  BY <1>2, OneBufferChanges
<1>6. At(n)' = e /\ At(n) = gBuffer[w]
  BY <1>1, <1>4, <1>5 DEF At
<1>7. ASSUME NEW j \in 0..(kNBuffers - 1), j # n PROVE At(j)' = At(j)
  BY <1>3, <1>4, <1>5, <1>7 DEF At
<1> QED BY <1>6, <1>7

\* An edge of the train in the air.
LEMMA EdgeStep ==
  ASSUME BuffersInv, NEW glitch \in BOOLEAN, Buffers!Edge(glitch)
  PROVE  BuffersInv'
<1> USE DEF BuffersInv
<1>1. BuffersType
  OBVIOUS
<1>2. PICK w \in Buffers!Index : w = gWriteBufferIndex
  BY <1>1, BuffersFacts DEF BuffersShape
<1>3. /\ gBuffer[w].pulses \in Seq(1..trains) /\ train \in 1..trains
      /\ Len(gBuffer[w].pulses) \in Nat /\ gBuffer[w].valid \in BOOLEAN
      /\ trains \in Nat /\ lapped \in BOOLEAN /\ kSize \in Nat /\ kSize > 1
  <2>1. BuffersShape
    BY <1>1, BuffersFacts
  <2>2. train # 0
    BY DEF Buffers!Edge
  <2> QED BY <1>2, <2>1, <2>2 DEF BuffersShape
<1>4. PICK e \in Entry :
        /\ Len(e.pulses) < kSize /\ gBuffer' = [gBuffer EXCEPT ![w] = e]
        /\ Filling(gBuffer[w]) => Filling(e)
  <2>1. CASE glitch \/ Len(gBuffer[w].pulses) + 1 >= kSize
    <3>1. PICK e : e = [pulses |-> <<>>, valid |-> FALSE]
      OBVIOUS
    <3>2. e.pulses = <<>> /\ e.valid = FALSE /\ Len(<<>>) = 0 /\ DOMAIN <<>> = {}
          /\ <<>> \in Seq(1..trains)
      BY <3>1
    <3>3. e \in Entry
      BY <3>1, <3>2 DEF Entry
    <3>4. gBuffer' = [gBuffer EXCEPT ![w] = e]
      BY <1>2, <2>1, <3>1 DEF Buffers!Edge, Buffers!Current, Buffers!Empty
    <3>5. Len(e.pulses) < kSize /\ Filling(e)
      BY <1>3, <3>2 DEF Filling
    <3> QED BY <3>3, <3>4, <3>5
  <2>2. CASE ~(glitch \/ Len(gBuffer[w].pulses) + 1 >= kSize)
    <3>1. PICK p : p = Append(gBuffer[w].pulses, train)
      OBVIOUS
    <3>2. p \in Seq(1..trains) /\ Grown(gBuffer[w].pulses, p, train)
      BY <1>3, <3>1, AppendGrows
    <3>3. PICK e : e = [gBuffer[w] EXCEPT !.pulses = p]
      OBVIOUS
    <3>4. gBuffer[w] \in Entry
      BY DEF BuffersType
    <3>5. e \in Entry /\ e.pulses = p /\ e.valid = gBuffer[w].valid
      BY <3>2, <3>3, <3>4 DEF Entry
    <3>6. gBuffer' = [gBuffer EXCEPT ![w] = e]
      <4>1. gBuffer' = [gBuffer EXCEPT ![w] = [gBuffer[w] EXCEPT !.pulses = Append(gBuffer[w].pulses, train)]]
        BY <1>2, <2>2 DEF Buffers!Edge, Buffers!Current
      <4> QED BY <3>1, <3>3, <4>1
    <3>7. Len(e.pulses) < kSize
      BY <1>3, <2>2, <3>2, <3>5 DEF Grown
    <3>8. Filling(gBuffer[w]) => Filling(e)
      BY <3>2, <3>5 DEF Filling, Grown
    <3> QED BY <3>5, <3>6, <3>7, <3>8
  <2> QED BY <2>1, <2>2
<1>5. /\ lapped' = (lapped \/ gBuffer[w].valid)
      /\ UNCHANGED <<gWriteBufferIndex, readBufferIndex, pbPc, index, seen, decoded, train, trains,
                     complete>>
  BY <1>2 DEF Buffers!Edge, Buffers!main, Buffers!Current
<1>6. /\ DOMAIN gBuffer' = Buffers!Index /\ gBuffer'[w] = e
      /\ \A b \in Buffers!Index : b # w => gBuffer'[b] = gBuffer[b]
      /\ \A b \in Buffers!Index : /\ gBuffer'[b] \in Entry'
                                   /\ Len(gBuffer'[b].pulses) < kSize
                                   /\ gBuffer'[b].valid \in BOOLEAN
  BY <1>1, <1>4, <1>5, OneBufferChanges
<1>7. BuffersType'
  <2>1. glitches' \in 0..MaxGlitches
    <3>1. BuffersShape
      BY <1>1, BuffersFacts
    <3>2. glitches \in 0..MaxGlitches /\ MaxGlitches \in Nat
      BY <3>1 DEF BuffersShape
    <3>3. /\ glitch => glitches < MaxGlitches
          /\ glitches' = IF glitch THEN glitches + 1 ELSE glitches
      BY DEF Buffers!Edge
    <3> QED BY <3>2, <3>3
  <2>2. Buffers!TypeOK'
    BY <1>3, <1>5, <1>6, <2>1 DEF BuffersType, Buffers!TypeOK
  <2> QED BY <1>5, <1>6, <2>2 DEF BuffersType
<1>8. BuffersRing'
  <2> SUFFICES ASSUME ~lapped' PROVE BuffersRing'
    BY DEF BuffersRing
  <2>1. ~lapped /\ ~gBuffer[w].valid
    BY <1>3, <1>5
  <2>0. PICK n : n = behind
    OBVIOUS
  <2>2. n \in 0..(kNBuffers - 1)
    BY <1>1, <1>2, <2>0, <2>1, NotFull
  <2>3. At(n)' = e /\ At(n) = gBuffer[w] /\ \A j \in 0..(kNBuffers - 1) : j # n => At(j)' = At(j)
    BY <1>1, <1>2, <1>4, <1>5, <2>0, <2>1, CurrentChanges
  <2>4. behind' = n /\ Len(complete) \in Nat /\ Len(decoded) \in Nat /\ kNBuffers \in Nat
    BY <1>1, <1>5, <2>0, BuffersFacts DEF behind, BuffersShape
  <2>5. /\ \A j \in 0..(n - 1) : j \in 0..(kNBuffers - 1) /\ j # n
        /\ \A j \in (n + 1)..(kNBuffers - 1) : j \in 0..(kNBuffers - 1) /\ j # n
        /\ n < kNBuffers
    BY <2>2, <2>4
  <2>6. /\ \A j \in 0..(n - 1) : Whole(At(j)', complete[Len(decoded) + 1 + j])
        /\ \A j \in (n + 1)..(kNBuffers - 1) : Unused(At(j)')
        /\ Filling(At(n)')
    BY <1>4, <2>0, <2>1, <2>3, <2>5 DEF BuffersRing
  <2>7. /\ \A j \in 0..(n - 1) : Whole(At(j), complete[Len(decoded) + 1 + j])'
        /\ \A j \in (n + 1)..(kNBuffers - 1) : Unused(At(j))'
        /\ Filling(At(n))'
    BY <1>5, <2>6 DEF Whole, Unused, Filling
  <2> QED BY <1>5, <2>0, <2>1, <2>2, <2>4, <2>5, <2>7 DEF BuffersRing
<1> QED BY <1>7, <1>8

\* No edge for long enough: the train is complete, or noise.
LEMMA TimeoutStep ==
  ASSUME BuffersInv, Buffers!Timeout
  PROVE  BuffersInv'
<1> USE DEF BuffersInv
<1>1. BuffersType /\ BuffersShape
  BY BuffersFacts
<1>2. PICK w \in Buffers!Index : w = gWriteBufferIndex
  BY <1>1 DEF BuffersShape
<1>3. /\ gBuffer[w].pulses \in Seq(1..trains) /\ gBuffer[w].valid \in BOOLEAN
      /\ Len(gBuffer[w].pulses) \in Nat /\ Len(gBuffer[w].pulses) < kSize
      /\ gBuffer[w] \in Entry
      /\ trains \in Nat /\ lapped \in BOOLEAN /\ kSize \in Nat /\ kSize > 1 /\ kMinEdges \in Nat
      /\ complete \in Seq(1..trains) /\ kNBuffers \in Nat \ {0}
  BY <1>1, <1>2 DEF BuffersShape, BuffersType
<1>4. /\ lapped' = (lapped \/ gBuffer[w].valid) /\ train' = 0
      /\ UNCHANGED <<readBufferIndex, pbPc, index, seen, decoded, trains, glitches>>
  BY <1>2 DEF Buffers!Timeout, Buffers!main, Buffers!Current
<1>5. PICK n : n = behind
  OBVIOUS
<1>6. ~lapped' => /\ ~lapped /\ ~gBuffer[w].valid /\ n \in 0..(kNBuffers - 1)
                  /\ w = Place(kNBuffers, readBufferIndex, n)
  <2> SUFFICES ASSUME ~lapped'
               PROVE  /\ ~lapped /\ ~gBuffer[w].valid /\ n \in 0..(kNBuffers - 1)
                      /\ w = Place(kNBuffers, readBufferIndex, n)
    OBVIOUS
  <2>1. ~lapped /\ ~gBuffer[w].valid
    BY <1>3, <1>4
  <2> QED BY <1>1, <1>2, <1>5, <2>1, NotFull
<1>7. CASE Len(gBuffer[w].pulses) > kMinEdges
  <2>1. PICK e : e = [gBuffer[w] EXCEPT !.valid = TRUE]
    OBVIOUS
  <2>2. e \in Entry /\ e.pulses = gBuffer[w].pulses /\ e.valid = TRUE
    BY <1>3, <2>1 DEF Entry
  <2>3. PICK l : l = Buffers!Last(gBuffer[w].pulses)
    OBVIOUS
  <2>4. l \in 1..trains /\ l = gBuffer[w].pulses[Len(gBuffer[w].pulses)]
    BY <1>3, <1>7, <2>3, ElementOfSeq DEF Buffers!Last
  <2>5. /\ gBuffer' = [gBuffer EXCEPT ![w] = e]
        /\ gWriteBufferIndex' = Buffers!NextIndex(w)
        /\ complete' = Append(complete, l)
    BY <1>2, <1>7, <2>1, <2>3 DEF Buffers!Timeout, Buffers!Current
  <2>6. complete' \in Seq(1..trains) /\ Grown(complete, complete', l)
    BY <1>3, <2>4, <2>5, AppendGrows
  <2>7. /\ DOMAIN gBuffer' = Buffers!Index
        /\ \A b \in Buffers!Index : /\ gBuffer'[b] \in Entry' /\ Len(gBuffer'[b].pulses) < kSize
                                     /\ gBuffer'[b].valid \in BOOLEAN
    BY <1>1, <1>3, <1>4, <2>2, <2>5, OneBufferChanges
  <2>8. gWriteBufferIndex' \in Buffers!Index
    <3>1. \A h \in 0..(kNBuffers - 1) : (h + 1) % kNBuffers \in 0..(kNBuffers - 1)
      BY <1>3
    <3> QED BY <1>1, <2>5, <3>1 DEF BuffersShape, Buffers!NextIndex
  <2>9. BuffersType'
    <3>1. Buffers!TypeOK'
      BY <1>1, <1>4, <2>7, <2>8 DEF BuffersShape, Buffers!TypeOK
    <3> QED BY <1>1, <1>4, <2>6, <2>7, <3>1 DEF BuffersType
  <2>10. ASSUME ~lapped' PROVE BuffersRing'
    <3>1. /\ ~lapped /\ ~gBuffer[w].valid /\ n \in 0..(kNBuffers - 1)
          /\ w = Place(kNBuffers, readBufferIndex, n)
      BY <1>6, <2>10
    <3>2. At(n)' = e /\ At(n) = gBuffer[w] /\ \A j \in 0..(kNBuffers - 1) : j # n => At(j)' = At(j)
      BY <1>1, <1>2, <1>3, <1>4, <1>5, <2>2, <2>5, <3>1, CurrentChanges
    <3>3. gWriteBufferIndex' = Place(kNBuffers, readBufferIndex, n + 1)
      <4>1. AtShape(Buffers!NextIndex(readBufferIndex))
        BY <1>1, AtFacts
      <4> QED BY <2>5, <3>1, <4>1 DEF AtShape
    <3>4. PICK d \in Nat : d = Len(decoded)
      BY <1>1 DEF BuffersShape
    <3>5. /\ Len(complete) \in Nat /\ Len(complete) = d + n /\ Len(complete') = d + n + 1
          /\ complete'[d + n + 1] = l /\ \A k \in 1..(d + n) : complete'[k] = complete[k]
          /\ DOMAIN decoded = 1..d
      BY <1>1, <1>5, <2>6, <3>1, <3>4 DEF BuffersShape, behind, Grown
    <3>6. behind' = n + 1 /\ Len(decoded') = d
      BY <1>4, <3>1, <3>4, <3>5 DEF behind
    <3>7. Whole(At(n)', complete'[d + 1 + n])
      <4>1. Filling(gBuffer[w])
        <5>1. n < kNBuffers
          BY <1>3, <3>1
        <5> QED BY <1>5, <3>1, <3>2, <5>1 DEF BuffersRing
      <4>2. \A k \in DOMAIN e.pulses : e.pulses[k] = l
        <5>1. Len(gBuffer[w].pulses) \in DOMAIN gBuffer[w].pulses
          BY <1>1, <1>3, <1>7 DEF BuffersShape
        <5> QED BY <2>2, <2>4, <4>1, <5>1 DEF Filling
      <4>3. complete'[d + 1 + n] = l
        BY <3>1, <3>5
      <4> QED BY <1>3, <1>7, <2>2, <3>2, <4>2, <4>3 DEF Whole
    <3>8. \A j \in 0..n : Whole(At(j)', complete'[d + 1 + j])
      <4>1. ASSUME NEW j \in 0..(n - 1) PROVE Whole(At(j)', complete'[d + 1 + j])
        <5>1. Whole(At(j), complete[d + 1 + j])
          BY <1>5, <3>1, <3>4, <4>1 DEF BuffersRing
        <5>2. j \in 0..(kNBuffers - 1) /\ j # n /\ d + 1 + j \in 1..(d + n)
          BY <1>3, <3>1
        <5>3. complete'[d + 1 + j] = complete[d + 1 + j] /\ At(j)' = At(j)
          BY <3>2, <3>5, <5>2
        <5> QED BY <5>1, <5>3
      <4> QED BY <3>1, <3>7, <4>1
    <3>9. \A j \in (n + 1)..(kNBuffers - 1) : Unused(At(j)')
      <4>1. \A j \in (n + 1)..(kNBuffers - 1) : j \in 0..(kNBuffers - 1) /\ j # n
        BY <3>1
      <4> QED BY <1>5, <3>1, <3>2, <4>1 DEF BuffersRing
    <3>10. /\ \A j \in 0..n : Whole(At(j), complete[Len(decoded) + 1 + j])'
           /\ \A j \in (n + 1)..(kNBuffers - 1) : Unused(At(j))' /\ Filling(At(j))'
      BY <1>4, <3>4, <3>8, <3>9 DEF Whole, Unused, Filling
    <3>11. \A k \in DOMAIN decoded : decoded[k] = {complete'[k]}
      BY <1>5, <3>1, <3>4, <3>5 DEF BuffersRing
    <3>12. pbPc = "decode" => n > 0 /\ seen \subseteq {complete'[d + 1]} /\ (index > 1 => seen # {})
      <4>1. n > 0 => complete'[d + 1] = complete[d + 1]
        BY <3>1, <3>5
      <4> QED BY <1>5, <3>1, <3>4, <4>1 DEF BuffersRing
    <3>13. PICK m : m = n + 1
      OBVIOUS
    <3>14. /\ m \in 0..kNBuffers /\ m > 0 /\ behind' = m
           /\ gWriteBufferIndex' = Place(kNBuffers, readBufferIndex', m)
      BY <1>3, <1>4, <3>1, <3>3, <3>6, <3>13
    <3>15. /\ \A j \in 0..(m - 1) : Whole(At(j), complete[Len(decoded) + 1 + j])'
           /\ \A j \in (m + 1)..(kNBuffers - 1) : Unused(At(j))'
           /\ m < kNBuffers => Filling(At(m))'
      <4>1. /\ \A j \in 0..(m - 1) : j \in 0..n
            /\ \A j \in (m + 1)..(kNBuffers - 1) : j \in (n + 1)..(kNBuffers - 1)
            /\ m < kNBuffers => m \in (n + 1)..(kNBuffers - 1)
        BY <1>3, <3>1, <3>13
      <4> QED BY <3>10, <4>1
    <3>16. /\ \A k \in DOMAIN decoded' : decoded'[k] = {complete'[k]}
           /\ pbPc' = "decode" => /\ m > 0 /\ seen' \subseteq {complete'[Len(decoded') + 1]}
                                  /\ index' > 1 => seen' # {}
      BY <1>4, <3>6, <3>11, <3>12, <3>14
    <3> QED BY <3>14, <3>15, <3>16 DEF BuffersRing
  <2> QED BY <2>9, <2>10 DEF BuffersRing
<1>8. CASE ~(Len(gBuffer[w].pulses) > kMinEdges)
  <2>1. PICK e : e = [pulses |-> <<>>, valid |-> FALSE]
    OBVIOUS
  <2>2. e.pulses = <<>> /\ e.valid = FALSE /\ Len(<<>>) = 0 /\ DOMAIN <<>> = {}
        /\ <<>> \in Seq(1..trains)
    BY <2>1
  <2>3. e \in Entry /\ Len(e.pulses) < kSize
    BY <1>3, <2>1, <2>2 DEF Entry
  <2>4. gBuffer' = [gBuffer EXCEPT ![w] = e] /\ UNCHANGED <<gWriteBufferIndex, complete>>
    BY <1>2, <1>8, <2>1 DEF Buffers!Timeout, Buffers!Current, Buffers!Empty
  <2>7. /\ DOMAIN gBuffer' = Buffers!Index
        /\ \A b \in Buffers!Index : /\ gBuffer'[b] \in Entry' /\ Len(gBuffer'[b].pulses) < kSize
                                     /\ gBuffer'[b].valid \in BOOLEAN
    BY <1>1, <1>3, <1>4, <2>3, <2>4, OneBufferChanges
  <2>9. BuffersType'
    <3>1. Buffers!TypeOK'
      BY <1>1, <1>4, <2>4, <2>7 DEF BuffersShape, Buffers!TypeOK
    <3> QED BY <1>1, <1>4, <2>4, <2>7, <3>1 DEF BuffersType, BuffersShape
  <2>10. ASSUME ~lapped' PROVE BuffersRing'
    <3>1. /\ ~lapped /\ ~gBuffer[w].valid /\ n \in 0..(kNBuffers - 1)
      BY <1>6, <2>10
    <3>2. At(n)' = e /\ \A j \in 0..(kNBuffers - 1) : j # n => At(j)' = At(j)
      BY <1>1, <1>2, <1>3, <1>4, <1>5, <2>3, <2>4, <3>1, CurrentChanges
    <3>3. behind' = n /\ n < kNBuffers /\ n \in Nat
      BY <1>3, <1>4, <1>5, <2>4, <3>1 DEF behind
    <3>4. /\ \A j \in 0..(n - 1) : j \in 0..(kNBuffers - 1) /\ j # n
          /\ \A j \in (n + 1)..(kNBuffers - 1) : j \in 0..(kNBuffers - 1) /\ j # n
      BY <1>3, <3>1
    <3>5. /\ \A j \in 0..(n - 1) : Whole(At(j)', complete[Len(decoded) + 1 + j])
          /\ \A j \in (n + 1)..(kNBuffers - 1) : Unused(At(j)')
      BY <1>5, <3>1, <3>2, <3>4 DEF BuffersRing
    <3>6. /\ \A j \in 0..(n - 1) : Whole(At(j), complete[Len(decoded) + 1 + j])'
          /\ \A j \in (n + 1)..(kNBuffers - 1) : Unused(At(j))'
          /\ Filling(At(n))'
      BY <1>4, <2>2, <2>4, <3>2, <3>5 DEF Whole, Unused, Filling
    <3> QED BY <1>4, <1>5, <2>4, <3>1, <3>3, <3>6 DEF BuffersRing
  <2> QED BY <2>9, <2>10 DEF BuffersRing
<1> QED BY <1>7, <1>8

\* main has seen all entries of a buffer.
LEMMA DecodedStep ==
  ASSUME BuffersInv, Buffers!Decoded
  PROVE  BuffersInv'
<1> USE DEF BuffersInv
<1>1. BuffersType /\ BuffersShape
  BY BuffersFacts
<1>2. PICK w \in Buffers!Index : w = readBufferIndex
  BY <1>1 DEF BuffersShape
<1>3. PICK next : next = Buffers!NextIndex(w)
  OBVIOUS
<1>4. /\ kNBuffers \in Nat \ {0} /\ kSize \in Nat /\ kSize > 1 /\ trains \in Nat
      /\ gBuffer[w] \in Entry /\ gBuffer[w].valid \in BOOLEAN /\ Len(gBuffer[w].pulses) < kSize
      /\ seen \in SUBSET (1..trains) /\ decoded \in Seq(SUBSET (1..trains)) /\ index \in 1..kSize
      /\ Len(gBuffer[w].pulses) \in Nat
  BY <1>1, <1>2 DEF BuffersShape, BuffersType
<1>5. /\ pbPc = "decode" /\ pbPc' = "look" /\ decoded' = Append(decoded, seen)
      /\ readBufferIndex' = next /\ index > Len(gBuffer[w].pulses)
      /\ UNCHANGED <<gWriteBufferIndex, index, seen, train, trains, complete, lapped, glitches>>
  BY <1>2, <1>3 DEF Buffers!Decoded
<1>6. AtShape(next)
  BY <1>1, <1>2, <1>3, AtFacts
<1>7. PICK e \in Entry :
        /\ Len(e.pulses) < kSize
        /\ gBuffer[w].valid => gBuffer' = [gBuffer EXCEPT ![w] = e] /\ Unused(e)
        /\ ~gBuffer[w].valid => gBuffer' = gBuffer /\ e = gBuffer[w]
  <2>1. PICK e : e = [pulses |-> <<>>, valid |-> FALSE]
    OBVIOUS
  <2>2. e.pulses = <<>> /\ e.valid = FALSE /\ Len(<<>>) = 0 /\ DOMAIN <<>> = {}
        /\ <<>> \in Seq(1..trains)
    BY <2>1
  <2>3. e \in Entry /\ Len(e.pulses) < kSize /\ Unused(e)
    BY <1>4, <2>1, <2>2 DEF Entry, Unused
  <2>4. gBuffer[w].valid => gBuffer' = [gBuffer EXCEPT ![w] = e]
    BY <1>2, <2>1 DEF Buffers!Decoded, Buffers!Empty
  <2>5. ~gBuffer[w].valid => gBuffer' = gBuffer
    BY <1>2 DEF Buffers!Decoded
  <2>6. CASE gBuffer[w].valid
    BY <2>3, <2>4, <2>6
  <2>7. CASE ~gBuffer[w].valid
    BY <1>4, <2>5, <2>7
  <2> QED BY <1>4, <2>6, <2>7
<1>8. /\ DOMAIN gBuffer' = Buffers!Index /\ gBuffer'[w] = e
      /\ \A b \in Buffers!Index : b # w => gBuffer'[b] = gBuffer[b]
      /\ \A b \in Buffers!Index : /\ gBuffer'[b] \in Entry' /\ Len(gBuffer'[b].pulses) < kSize
                                   /\ gBuffer'[b].valid \in BOOLEAN
  <2>1. CASE gBuffer[w].valid
    BY <1>1, <1>5, <1>7, <2>1, OneBufferChanges
  <2>2. CASE ~gBuffer[w].valid
    <3>1. Entry' = Entry
      BY <1>5 DEF Entry
    <3> QED BY <1>1, <1>7, <2>2, <3>1 DEF BuffersType, BuffersShape
  <2> QED BY <1>4, <2>1, <2>2
<1>9. decoded' \in Seq(SUBSET (1..trains)) /\ Grown(decoded, decoded', seen)
  BY <1>4, <1>5, AppendGrows
<1>10. BuffersType'
  <2>1. readBufferIndex' \in Buffers!Index /\ pbPc' = "look"
    BY <1>5, <1>6 DEF AtShape
  <2>2. /\ gWriteBufferIndex \in Buffers!Index /\ index \in 1..kSize /\ seen \subseteq 1..trains
        /\ train \in 0..trains /\ trains \in 0..MaxTrains /\ lapped \in BOOLEAN
        /\ glitches \in 0..MaxGlitches
    BY <1>1 DEF BuffersShape
  <2>3. Buffers!TypeOK'
    BY <1>5, <1>8, <2>1, <2>2 DEF Buffers!TypeOK
  <2> QED BY <1>1, <1>5, <1>8, <1>9, <2>3 DEF BuffersType, BuffersShape
<1>11. ASSUME ~lapped' PROVE BuffersRing'
  <2>1. ~lapped
    BY <1>5, <1>11
  <2>2. PICK n \in 1..kNBuffers : n = behind
    BY <1>4, <1>5, <2>1 DEF BuffersRing
  <2>3. PICK d \in Nat : d = Len(decoded)
    BY <1>1 DEF BuffersShape
  <2>4. /\ gWriteBufferIndex = Place(kNBuffers, w, n)
        /\ \A j \in 0..(n - 1) : Whole(At(j), complete[d + 1 + j])
        /\ n < kNBuffers => Filling(At(n))
        /\ \A j \in (n + 1)..(kNBuffers - 1) : Unused(At(j))
        /\ \A k \in DOMAIN decoded : decoded[k] = {complete[k]}
        /\ seen \subseteq {complete[d + 1]} /\ (index > 1 => seen # {})
    BY <1>2, <1>5, <2>1, <2>2, <2>3 DEF BuffersRing
  <2>5. Whole(gBuffer[w], complete[d + 1])
    <3>1. 0 \in 0..(n - 1) /\ d + 1 + 0 = d + 1 /\ At(0) = gBuffer[w]
      BY <1>2, <1>6, <2>2 DEF AtShape
    <3> QED BY <2>4, <3>1
  <2>6. Unused(e) /\ seen = {complete[d + 1]}
    <3>1. index > 1
      BY <1>4, <1>5, <2>5 DEF Whole
    <3> QED BY <1>7, <2>4, <2>5, <3>1 DEF Whole
  <2>7. \A k \in DOMAIN decoded' : decoded'[k] = {complete'[k]}
    BY <1>5, <1>9, <2>3, <2>4, <2>6 DEF Grown
  <2>8. PICK m : m = n - 1
    OBVIOUS
  <2>9. behind' = m /\ Len(decoded') = d + 1 /\ m \in 0..(kNBuffers - 1) /\ m + 1 = n
    <3>1. Len(complete) \in Nat
      BY <1>1 DEF BuffersShape
    <3> QED BY <1>4, <1>5, <1>9, <2>2, <2>3, <2>8, <3>1 DEF behind, Grown
  <2>10. gWriteBufferIndex' = Place(kNBuffers, readBufferIndex', m)
    BY <1>2, <1>5, <1>6, <2>4, <2>9 DEF AtShape
  <2>11. /\ \A j \in 0..(kNBuffers - 2) : At(j)' = At(j + 1)
         /\ At(kNBuffers - 1)' = e
    <3>1. \A j \in 0..(kNBuffers - 1) : At(j)' = gBuffer'[Place(kNBuffers, readBufferIndex, j + 1)]
      BY <1>5, <1>6 DEF At, AtShape
    <3>2. \A j \in 0..(kNBuffers - 2) : /\ Place(kNBuffers, readBufferIndex, j + 1) \in Buffers!Index
                                        /\ Place(kNBuffers, readBufferIndex, j + 1) # w
      <4>1. \A j \in 0..(kNBuffers - 2) : j + 1 \in 0..(kNBuffers - 1) /\ j + 1 # 0 /\ j + 1 \in 0..kNBuffers
        BY <1>4
      <4>2. 0 \in 0..(kNBuffers - 1)
        BY <1>4
      <4> QED BY <1>2, <1>6, <4>1, <4>2 DEF AtShape
    <3>3. \A j \in 0..(kNBuffers - 2) : j \in 0..(kNBuffers - 1)
      BY <1>4
    <3>4. \A j \in 0..(kNBuffers - 2) : At(j)' = At(j + 1)
      BY <1>8, <3>1, <3>2, <3>3 DEF At
    <3>5. kNBuffers - 1 \in 0..(kNBuffers - 1) /\ (kNBuffers - 1) + 1 = kNBuffers
      BY <1>4
    <3>6. At(kNBuffers - 1)' = e
      BY <1>2, <1>6, <1>8, <3>1, <3>5 DEF AtShape
    <3> QED BY <3>4, <3>6
  <2>12. \A j \in 0..(m - 1) : Whole(At(j)', complete[d + 1 + 1 + j])
    <3>1. ASSUME NEW j \in 0..(m - 1) PROVE Whole(At(j)', complete[d + 1 + 1 + j])
      <4>1. j \in 0..(kNBuffers - 2) /\ j + 1 \in 0..(n - 1) /\ d + 1 + (j + 1) = d + 1 + 1 + j
        BY <1>4, <2>9
      <4>2. Whole(At(j + 1), complete[d + 1 + (j + 1)])
        BY <2>4, <4>1
      <4> QED BY <2>11, <4>1, <4>2
    <3> QED BY <3>1
  <2>13. Filling(At(m)')
    <3>1. CASE m < kNBuffers - 1
      <4>1. m \in 0..(kNBuffers - 2) /\ n < kNBuffers
        BY <1>4, <2>9, <3>1
      <4> QED BY <2>4, <2>9, <2>11, <4>1
    <3>2. CASE m = kNBuffers - 1
      BY <2>6, <2>11, <3>2 DEF Filling, Unused
    <3> QED BY <1>4, <2>9, <3>1, <3>2
  <2>14. \A j \in (m + 1)..(kNBuffers - 1) : Unused(At(j)')
    <3>1. ASSUME NEW j \in (m + 1)..(kNBuffers - 1) PROVE Unused(At(j)')
      <4>1. CASE j = kNBuffers - 1
        BY <2>6, <2>11, <4>1
      <4>2. CASE j # kNBuffers - 1
        <5>1. j \in 0..(kNBuffers - 2) /\ j + 1 \in (n + 1)..(kNBuffers - 1)
          BY <1>4, <2>9, <3>1, <4>2
        <5> QED BY <2>4, <2>11, <5>1
      <4> QED BY <4>1, <4>2
    <3> QED BY <3>1
  <2>15. /\ \A j \in 0..(m - 1) : Whole(At(j), complete[Len(decoded) + 1 + j])'
         /\ \A j \in (m + 1)..(kNBuffers - 1) : Unused(At(j))'
         /\ Filling(At(m))'
    BY <1>5, <2>9, <2>12, <2>13, <2>14 DEF Whole, Unused, Filling
  <2>16. pbPc' # "decode" /\ m \in 0..kNBuffers
    BY <1>4, <1>5, <2>9
  <2> QED BY <2>7, <2>9, <2>10, <2>15, <2>16 DEF BuffersRing
<1> QED BY <1>10, <1>11 DEF BuffersRing

\* A step of the receiver.
LEMMA BuffersStep ==
  ASSUME BuffersInv, Buffers!Next \/ UNCHANGED Buffers!vars
  PROVE  BuffersInv'
<1> USE DEF BuffersInv
<1>1. BuffersType /\ BuffersShape
  BY BuffersFacts
<1>2. ASSUME UNCHANGED <<gBuffer, gWriteBufferIndex, readBufferIndex, complete, decoded, lapped,
                         trains>>
      PROVE  /\ \A b \in Buffers!Index : gBuffer'[b] \in Entry'
             /\ behind' = behind /\ \A j : At(j)' = At(j)
  BY <1>1, <1>2 DEF BuffersType, Entry, At, behind
<1>3. CASE UNCHANGED Buffers!vars
  BY <1>2, <1>3 DEF Buffers!vars, BuffersType, Buffers!TypeOK, BuffersRing, Whole, Unused, Filling
<1>4. CASE Buffers!TrainBegins
  <2>1. /\ train = 0 /\ train' = trains + 1 /\ trains' = trains + 1 /\ trains < MaxTrains
        /\ UNCHANGED <<gBuffer, gWriteBufferIndex, readBufferIndex, pbPc, index, seen, decoded,
                       complete, lapped, glitches>>
    BY <1>4 DEF Buffers!TrainBegins, Buffers!main
  <2>2. 1..trains \subseteq 1..(trains + 1) /\ SUBSET (1..trains) \subseteq SUBSET (1..(trains + 1))
    BY <1>1 DEF BuffersShape
  <2>3. \A b \in Buffers!Index : gBuffer'[b] \in Entry'
    <3>1. ASSUME NEW b \in Buffers!Index PROVE gBuffer'[b] \in Entry'
      <4>1. gBuffer[b] \in Entry /\ gBuffer[b].pulses \in Seq(1..trains)
        BY <1>1, <3>1 DEF BuffersType, BuffersShape
      <4>2. PICK p \in Seq(1..trains) : p = gBuffer[b].pulses
        BY <4>1
      <4>3. p \in Seq(1..(trains + 1))
        BY <2>2, SeqMonotonic
      <4>4. /\ gBuffer[b] = [pulses |-> p, valid |-> gBuffer[b].valid]
            /\ gBuffer[b].valid \in BOOLEAN
        BY <4>1, <4>2 DEF Entry
      <4>5. gBuffer' = gBuffer /\ trains' = trains + 1
        BY <2>1
      <4> QED BY <4>3, <4>4, <4>5 DEF Entry
    <3> QED BY <3>1
  <2>4. complete' \in Seq(1..(trains + 1)) /\ decoded' \in Seq(SUBSET (1..(trains + 1)))
    <3>1. complete \in Seq(1..trains) /\ decoded \in Seq(SUBSET (1..trains))
      BY <1>1 DEF BuffersShape
    <3>2. complete \in Seq(1..(trains + 1))
      BY <2>2, <3>1, SeqMonotonic
    <3>3. decoded \in Seq(SUBSET (1..(trains + 1)))
      BY <2>2, <3>1, SeqMonotonic
    <3> QED BY <2>1, <3>2, <3>3
  <2>5. BuffersType'
    <3>1. Buffers!TypeOK'
      BY <1>1, <2>1 DEF BuffersShape, Buffers!TypeOK
    <3> QED BY <2>1, <2>3, <2>4, <3>1 DEF BuffersType
  <2>6. ASSUME ~lapped' PROVE BuffersRing'
    <3>1. behind' = behind /\ \A j : At(j)' = At(j)
      BY <2>1 DEF behind, At
    <3>2. behind < kNBuffers => Filling(At(behind))'
      <4> SUFFICES ASSUME behind < kNBuffers PROVE Filling(At(behind))'
        OBVIOUS
      <4>1. PICK b \in Buffers!Index : At(behind) = gBuffer[b]
        <5>1. AtShape(Buffers!NextIndex(readBufferIndex))
          BY <1>1, AtFacts
        <5>2. behind \in 0..kNBuffers
          BY <2>1, <2>6 DEF BuffersRing
        <5> QED BY <5>1, <5>2 DEF At, AtShape
      <4>2. Filling(gBuffer[b])
        BY <2>1, <2>6, <4>1 DEF BuffersRing
      <4>3. \A k \in DOMAIN gBuffer[b].pulses : gBuffer[b].pulses[k] \in 1..trains
        <5>1. gBuffer[b].pulses \in Seq(1..trains) /\ DOMAIN gBuffer[b].pulses = 1..Len(gBuffer[b].pulses)
          BY <1>1 DEF BuffersShape
        <5> QED BY <5>1, ElementOfSeq
      <4>4. DOMAIN gBuffer[b].pulses = {}
        BY <1>1, <2>1, <4>2, <4>3 DEF Filling, BuffersShape
      <4> QED BY <3>1, <4>1, <4>2, <4>4 DEF Filling
    <3> QED BY <2>1, <2>6, <3>1, <3>2 DEF BuffersRing, Whole, Unused
  <2> QED BY <2>5, <2>6 DEF BuffersRing
<1>5. CASE Buffers!Decode
  <2>1. /\ pbPc' = "decode" /\ index' = 1 /\ seen' = {} /\ gBuffer[readBufferIndex].valid
        /\ UNCHANGED <<gBuffer, gWriteBufferIndex, readBufferIndex, train, trains, complete, decoded,
                       lapped, glitches>>
    BY <1>5 DEF Buffers!Decode
  <2>2. BuffersType'
    <3>1. Buffers!TypeOK'
      BY <1>1, <2>1 DEF BuffersShape, Buffers!TypeOK
    <3> QED BY <1>1, <1>2, <2>1, <3>1 DEF BuffersType
  <2>3. ASSUME ~lapped' PROVE BuffersRing'
    <3>1. ~lapped /\ behind \in 0..kNBuffers /\ kNBuffers \in Nat \ {0} /\ kNBuffers > 1
      BY <1>1, <2>1, <2>3 DEF BuffersRing, BuffersShape
    <3>2. behind # 0
      <4> SUFFICES ASSUME behind = 0 PROVE FALSE
        OBVIOUS
      <4>1. Filling(At(0))
        BY <3>1 DEF BuffersRing
      <4>2. At(0) = gBuffer[readBufferIndex]
        BY <1>1, AtFacts DEF AtShape
      <4> QED BY <2>1, <4>1, <4>2 DEF Filling
    <3>3. behind' = behind /\ \A j : At(j)' = At(j)
      BY <1>2, <2>1
    <3> QED BY <2>1, <3>1, <3>2, <3>3 DEF BuffersRing, Whole, Unused, Filling
  <2> QED BY <2>2, <2>3 DEF BuffersRing
<1>6. CASE Buffers!NextEntry
  <2>1. PICK x : x = gBuffer[readBufferIndex].pulses[index]
    OBVIOUS
  <2>2. /\ pbPc = "decode" /\ pbPc' = pbPc /\ index' = index + 1 /\ seen' = seen \cup {x}
        /\ index <= Len(gBuffer[readBufferIndex].pulses)
        /\ UNCHANGED <<gBuffer, gWriteBufferIndex, readBufferIndex, train, trains, complete, decoded,
                       lapped, glitches>>
    BY <1>6, <2>1 DEF Buffers!NextEntry
  <2>3. PICK b \in Buffers!Index : b = readBufferIndex
    BY <1>1 DEF BuffersShape
  <2>4. /\ gBuffer[b].pulses \in Seq(1..trains) /\ index \in 1..Len(gBuffer[b].pulses)
        /\ index \in DOMAIN gBuffer[b].pulses
        /\ index + 1 \in 1..kSize
    BY <1>1, <2>2, <2>3 DEF BuffersShape
  <2>5. x \in 1..trains
    BY <2>1, <2>3, <2>4, ElementOfSeq
  <2>6. BuffersType'
    <3>1. index' \in 1..kSize
      BY <2>2, <2>4
    <3>2. seen' \subseteq 1..trains
      BY <1>1, <2>2, <2>5 DEF BuffersShape
    <3>3. Buffers!TypeOK
      BY <1>1 DEF BuffersType
    <3>4. Buffers!TypeOK'
      BY <2>2, <3>1, <3>2, <3>3 DEF Buffers!TypeOK
    <3> QED BY <1>1, <1>2, <2>2, <3>4 DEF BuffersType
  <2>7. ASSUME ~lapped' PROVE BuffersRing'
    <3>1. ~lapped /\ behind > 0 /\ behind \in 0..kNBuffers
      BY <2>2, <2>7 DEF BuffersRing
    <3>2. Whole(At(0), complete[Len(decoded) + 1 + 0])
      <4>1. 0 \in 0..(behind - 1)
        BY <3>1
      <4> QED BY <3>1, <4>1 DEF BuffersRing
    <3>3. Len(decoded) + 1 + 0 = Len(decoded) + 1 /\ At(0) = gBuffer[b]
      BY <1>1, <2>3, AtFacts DEF AtShape, BuffersShape
    <3>4. x = complete[Len(decoded) + 1]
      BY <2>1, <2>3, <2>4, <3>2, <3>3 DEF Whole
    <3>5. behind' = behind /\ \A j : At(j)' = At(j)
      BY <1>2, <2>2
    <3> QED BY <2>2, <3>1, <3>4, <3>5 DEF BuffersRing, Whole, Unused, Filling
  <2> QED BY <2>6, <2>7 DEF BuffersRing
<1> QED BY <1>3, <1>4, <1>5, <1>6, EdgeStep, TimeoutStep, DecodedStep DEF Buffers!Next

\* Each pulse train that was received completely is decoded once, in order and with no pulse
\* of another, whatever glitches there are within trains and whenever the interrupts come, as
\* long as main does not fall a whole ring of buffers behind (avrcode/rfio433MHz/rfio433MHz.cpp).
THEOREM TrainsAreAlwaysDecoded == Spec => []TrainsAreDecoded
<1> DEFINE Inv == part = "buffers" => BuffersInv
<1>1. Init => Inv
  BY BuffersInit DEF Init
<1>2. Inv /\ [Next]_all => Inv'
  BY PartsStep, BuffersStep
<1>3. ASSUME BuffersInv PROVE Buffers!TrainsAreDecoded
  <2> SUFFICES ASSUME ~lapped PROVE Buffers!TrainsAreDecoded
    BY DEF Buffers!TrainsAreDecoded
  <2>1. BuffersType /\ BuffersRing /\ BuffersShape /\ AtShape(Buffers!NextIndex(readBufferIndex))
    BY <1>3, BuffersFacts, AtFacts DEF BuffersInv
  <2>2. /\ behind \in 0..kNBuffers /\ Len(complete) \in Nat /\ Len(decoded) \in Nat
        /\ behind = Len(complete) - Len(decoded) /\ kNBuffers \in Nat
    BY <2>1 DEF BuffersRing, BuffersShape, behind
  <2>3. Len(decoded) < Len(complete) => gBuffer[readBufferIndex].valid
    <3>1. Len(decoded) < Len(complete) => 0 \in 0..(behind - 1)
      BY <2>2
    <3>2. Len(decoded) < Len(complete) => Whole(At(0), complete[Len(decoded) + 1 + 0])
      BY <2>1, <3>1 DEF BuffersRing
    <3> QED BY <2>1, <3>2 DEF AtShape, Whole
  <2>4. Len(decoded) <= Len(complete)
    BY <2>2
  <2> QED BY <2>1, <2>3, <2>4 DEF BuffersRing, Buffers!TrainsAreDecoded
<1>4. Inv => TrainsAreDecoded
  BY <1>3 DEF TrainsAreDecoded
<1> QED BY <1>1, <1>2, <1>4, PTL DEF Spec

-----------------------------------------------------------------------------
(* ReceiveRing *)

\* What % does from one number to the next.
LEMMA Multiple ==
  ASSUME NEW k \in Nat \ {0}, NEW d \in Int
  PROVE  /\ -k < k * d /\ k * d < k => d = 0
         /\ 0 < k * d /\ k * d <= k => d = 1
<1>1. d >= 1 => k * d >= k
  OBVIOUS
<1>2. d >= 2 => k * d >= 2 * k
  OBVIOUS
<1>3. d <= -1 => k * d <= -k
  OBVIOUS
<1>4. d = 0 => k * d = 0
  OBVIOUS
<1> QED BY <1>1, <1>2, <1>3, <1>4

LEMMA NextRemainder ==
  ASSUME NEW k \in Nat \ {0}, NEW n \in Nat
  PROVE  (n + 1) % k = IF (n % k) + 1 = k THEN 0 ELSE (n % k) + 1
<1>1. PICK q \in Int, r \in 0..(k - 1) : n = k * q + r /\ n % k = r
  <2>1. n \div k \in Int
    OBVIOUS
  <2>2. n % k \in 0..(k - 1)
    OBVIOUS
  <2>3. n = k * (n \div k) + (n % k)
    OBVIOUS
  <2> QED BY <2>1, <2>2, <2>3
<1>2. PICK p \in Int, s \in 0..(k - 1) : n + 1 = k * p + s /\ (n + 1) % k = s
  <2>1. (n + 1) \div k \in Int
    OBVIOUS
  <2>2. (n + 1) % k \in 0..(k - 1)
    OBVIOUS
  <2>3. (n + 1) = k * ((n + 1) \div k) + ((n + 1) % k)
    OBVIOUS
  <2> QED BY <2>1, <2>2, <2>3
<1>3. k * (p - q) = r + 1 - s /\ p - q \in Int
  BY <1>1, <1>2
<1>4. CASE r + 1 = k
  <2>1. p - q = 1
    BY <1>3, <1>4, Multiple
  <2> QED BY <1>1, <1>2, <1>3, <1>4, <2>1
<1>5. CASE r + 1 # k
  <2>1. p - q = 0
    BY <1>3, <1>5, Multiple
  <2> QED BY <1>1, <1>2, <1>3, <1>5, <2>1
<1> QED BY <1>4, <1>5

\* The ring between its two ends.
RingEnds ==
  /\ unread \in 0..(kRingBufferSize - 1) /\ lReadIndex \in Ring!Places
  /\ lWriteIndex = Place(kRingBufferSize, lReadIndex, unread)
  /\ DOMAIN lBuffer = Ring!Places
  /\ commands \in Seq(Nat) /\ toSend \in Seq(Nat) /\ lLine \in Seq(Nat)
  /\ lines \in Seq(Seq(Nat))

\* The lines that were returned, as CommandsArrive has them.
LinesAreCommands ==
  /\ Len(lines) <= Len(commands)
  /\ \A n \in 1..Len(lines) : /\ \A m \in DOMAIN lines[n] : lines[n][m] = n
                              /\ Len(lines[n]) = commands[n] % kLineBufferSize

\* The j-th byte from where fNextLine reads on is the one after the first off[j] of the
\* command num[j]: each that was written follows the one before it, the first belongs to the
\* line that is being made, and what comes after the last is what is still to be sent.
Written(num, off) ==
  \A j \in 0..(unread - 1) :
    /\ num[j] <= Len(commands) /\ off[j] <= commands[num[j]]
    /\ IF off[j] < commands[num[j]]
       THEN /\ lBuffer[Place(kRingBufferSize, lReadIndex, j)] = num[j]
            /\ num[j + 1] = num[j] /\ off[j + 1] = off[j] + 1
       ELSE /\ lBuffer[Place(kRingBufferSize, lReadIndex, j)] = 0
            /\ num[j + 1] = num[j] + 1 /\ off[j + 1] = 0
LineBegun(n, o) ==
  /\ n = Len(lines) + 1 /\ Len(lLine) = o % kLineBufferSize
  /\ \A m \in DOMAIN lLine : lLine[m] = n
ToBeSent(n, o) ==
  /\ toSend = <<>> => n = Len(commands) + 1 /\ o = 0
  /\ toSend # <<>> => /\ n = Len(commands) /\ o <= commands[n]
                      /\ Len(toSend) = commands[n] + 1 - o
                      /\ \A m \in DOMAIN toSend : toSend[m] = IF m < Len(toSend) THEN n ELSE 0
Flow(num, off) ==
  /\ num \in [0..unread -> Nat \ {0}] /\ off \in [0..unread -> Nat]
  /\ Written(num, off)
  /\ LineBegun(num[0], off[0])
  /\ ToBeSent(num[unread], off[unread])

RingInv ==
  /\ overrun \in BOOLEAN
  /\ ~overrun => RingEnds /\ LinesAreCommands /\ \E num, off : Flow(num, off)

LEMMA RingConstants ==
  /\ kRingBufferSize \in Nat \ {0} /\ kRingBufferSize > 1
  /\ kLineBufferSize \in Nat \ {0} /\ Lengths \subseteq Nat
  /\ Ring!Places = 0..(kRingBufferSize - 1)
BY PartsAssumption DEF Ring!RingAssumption, Ring!Places

LEMMA RingInit == Ring!Init => RingInv
<1> SUFFICES ASSUME Ring!Init PROVE RingInv
  OBVIOUS
<1>1. /\ DOMAIN lBuffer = Ring!Places /\ lWriteIndex = 0 /\ lReadIndex = 0
      /\ lLine = <<>> /\ toSend = <<>> /\ commands = <<>> /\ lines = <<>>
      /\ unread = 0 /\ overrun = FALSE
  BY DEF Ring!Init
<1>2. Len(<<>>) = 0 /\ DOMAIN <<>> = {} /\ <<>> \in Seq(Nat) /\ <<>> \in Seq(Seq(Nat))
  OBVIOUS
<1>3. RingEnds
  BY <1>1, <1>2, RingConstants DEF RingEnds, Place
<1>4. LinesAreCommands
  BY <1>1, <1>2 DEF LinesAreCommands
<1>5. PICK num, off : num = [j \in 0..0 |-> 1] /\ off = [j \in 0..0 |-> 0]
  OBVIOUS
<1>6. num \in [0..0 -> Nat \ {0}] /\ off \in [0..0 -> Nat] /\ num[0] = 1 /\ off[0] = 0
  BY <1>5
<1>7. 0 % kLineBufferSize = 0
  BY RingConstants
<1>8. Flow(num, off)
  BY <1>1, <1>2, <1>6, <1>7 DEF Flow, Written, LineBegun, ToBeSent
<1> QED BY <1>1, <1>3, <1>4, <1>8 DEF RingInv

\* A command comes: what the ring holds is as before.
LEMMA CommandStep ==
  ASSUME RingInv, NEW n \in Lengths, Ring!Command(n), ~overrun
  PROVE  RingInv'
<1>1. RingEnds /\ LinesAreCommands
  BY DEF RingInv
<1>2. PICK num, off : Flow(num, off)
  BY DEF RingInv
<1>3. PICK c : c = Len(commands)
  OBVIOUS
<1>4. /\ toSend = <<>> /\ commands' = Append(commands, n)
      /\ toSend' = [i_1 \in 1..(n + 1) |-> IF i_1 <= n THEN c + 1 ELSE 0]
      /\ UNCHANGED <<lBuffer, lWriteIndex, lReadIndex, lLine, lines, unread, overrun>>
  BY <1>3 DEF Ring!Command, Ring!Newline
<1>5. n \in Nat /\ c \in Nat /\ commands \in Seq(Nat) /\ unread \in Nat /\ lines \in Seq(Seq(Nat))
      /\ Len(lines) \in Nat
  BY <1>1, <1>3, RingConstants, LenProperties DEF RingEnds
<1>6. commands' \in Seq(Nat) /\ Grown(commands, commands', n)
  BY <1>4, <1>5, AppendGrows
<1>7. /\ commands'[c + 1] = n /\ Len(commands') = c + 1
      /\ \A m \in 1..c : commands'[m] = commands[m]
  BY <1>3, <1>6 DEF Grown
<1>8. toSend' \in Seq(Nat) /\ Len(toSend') = n + 1 /\ toSend' # <<>> /\ DOMAIN toSend' = 1..(n + 1)
  <2>1. toSend' \in [1..(n + 1) -> Nat] /\ n + 1 \in Nat
    BY <1>4, <1>5
  <2>2. toSend' \in Seq(Nat)
    BY <2>1
  <2>3. Len(toSend') = n + 1
    BY <1>5, <2>1, <2>2
  <2> QED BY <1>5, <2>1, <2>2, <2>3
<1>9. RingEnds'
  BY <1>1, <1>4, <1>6, <1>8 DEF RingEnds
<1>10. LinesAreCommands'
  BY <1>1, <1>3, <1>4, <1>5, <1>7 DEF LinesAreCommands
<1>11. num[unread] = c + 1 /\ off[unread] = 0
  BY <1>2, <1>3, <1>4 DEF Flow, ToBeSent
<1>12. Flow(num, off)'
  <2>1. Written(num, off)'
    <3>1. \A j \in 0..(unread - 1) : num[j] \in 1..c /\ c <= c + 1
      BY <1>2, <1>3, <1>5 DEF Flow, Written
    <3>2. \A j \in 0..(unread - 1) : commands'[num[j]] = commands[num[j]] /\ num[j] <= Len(commands')
      BY <1>5, <1>7, <3>1
    <3> QED BY <1>2, <1>4, <3>2 DEF Flow, Written
  <2>2. LineBegun(num[0], off[0])'
    BY <1>2, <1>4 DEF Flow, LineBegun
  <2>3. ToBeSent(num[unread], off[unread])'
    <3>1. \A m \in DOMAIN toSend' : toSend'[m] = IF m < n + 1 THEN c + 1 ELSE 0
      BY <1>4, <1>5, <1>8
    <3>2. /\ toSend' # <<>> /\ c + 1 = Len(commands') /\ 0 <= commands'[c + 1]
          /\ Len(toSend') = commands'[c + 1] + 1 - 0
      BY <1>5, <1>7, <1>8
    <3>3. \A m \in DOMAIN toSend' : toSend'[m] = IF m < Len(toSend') THEN c + 1 ELSE 0
      BY <1>8, <3>1
    <3>4. ToBeSent(c + 1, 0)'
      BY <3>2, <3>3 DEF ToBeSent
    <3>5. num[unread'] = c + 1 /\ off[unread'] = 0
      BY <1>4, <1>11
    <3> QED BY <3>4, <3>5
  <2> QED BY <1>2, <1>4, <2>1, <2>2, <2>3 DEF Flow
<1> QED BY <1>4, <1>9, <1>10, <1>12 DEF RingInv

\* The interrupt writes a byte.
LEMMA AddByteStep ==
  ASSUME RingInv, Ring!fAddByteToBuffer, ~overrun'
  PROVE  RingInv'
<1>1. /\ toSend # <<>> /\ toSend' = Tail(toSend)
      /\ lBuffer' = [lBuffer EXCEPT ![lWriteIndex] = Head(toSend)]
      /\ lWriteIndex' = (lWriteIndex + 1) % kRingBufferSize
      /\ unread' = unread + 1
      /\ ~overrun /\ ~(unread + 1 >= kRingBufferSize)
      /\ UNCHANGED <<lReadIndex, lLine, commands, lines>>
  BY DEF Ring!fAddByteToBuffer
<1>2. RingEnds /\ LinesAreCommands
  BY <1>1 DEF RingInv
<1>3. PICK num, off : Flow(num, off)
  BY <1>1 DEF RingInv
<1>4. PICK u, r, w : u = unread /\ r = lReadIndex /\ w = lWriteIndex
  OBVIOUS
<1>5. PICK n, o : n = num[u] /\ o = off[u]
  OBVIOUS
<1>6. /\ kRingBufferSize \in Nat \ {0}
      /\ u \in 0..(kRingBufferSize - 2) /\ u + 1 \in 0..(kRingBufferSize - 1)
      /\ r \in 0..(kRingBufferSize - 1) /\ w = Place(kRingBufferSize, r, u)
      /\ DOMAIN lBuffer = 0..(kRingBufferSize - 1)
      /\ toSend \in Seq(Nat) /\ commands \in Seq(Nat)
      /\ num \in [0..u -> Nat \ {0}] /\ off \in [0..u -> Nat]
  <2>1. /\ kRingBufferSize \in Nat \ {0} /\ u \in 0..(kRingBufferSize - 1)
        /\ r \in 0..(kRingBufferSize - 1) /\ w = Place(kRingBufferSize, r, u)
        /\ DOMAIN lBuffer = 0..(kRingBufferSize - 1)
        /\ toSend \in Seq(Nat) /\ commands \in Seq(Nat)
    BY <1>2, <1>4, RingConstants DEF RingEnds
  <2>2. u \in 0..(kRingBufferSize - 2) /\ u + 1 \in 0..(kRingBufferSize - 1)
    BY <1>1, <1>4, <2>1
  <2>3. num \in [0..u -> Nat \ {0}] /\ off \in [0..u -> Nat]
    BY <1>3, <1>4 DEF Flow
  <2> QED BY <2>1, <2>2, <2>3
<1>7. RingPlaces(kRingBufferSize, r)
  BY <1>6, PlaceFacts
<1>8. n \in Nat \ {0} /\ o \in Nat /\ Len(commands) \in Nat
  <2>1. u \in 0..u
    BY <1>6
  <2> QED BY <1>5, <1>6, <2>1, LenProperties
<1>9. PICK h : h = Head(toSend)
  OBVIOUS
<1>10. Tail(toSend) \in Seq(Nat) /\ Shrunk(toSend, Tail(toSend))
  BY <1>1, <1>6, TailShrinks
<1>11. toSend' \in Seq(Nat) /\ Shrunk(toSend, toSend') /\ h \in Nat /\ h = toSend[1]
  BY <1>1, <1>6, <1>9, <1>10, TailShrinks DEF Shrunk
<1>12. PICK c : c = commands[n]
  OBVIOUS
<1>13. /\ n = Len(commands) /\ o <= c /\ c \in Nat
       /\ Len(toSend) = c + 1 - o
       /\ \A m \in DOMAIN toSend : toSend[m] = IF m < Len(toSend) THEN n ELSE 0
  <2>1. /\ n = Len(commands) /\ o <= c /\ Len(toSend) = c + 1 - o
        /\ \A m \in DOMAIN toSend : toSend[m] = IF m < Len(toSend) THEN n ELSE 0
    BY <1>1, <1>3, <1>4, <1>5, <1>12 DEF Flow, ToBeSent
  <2>2. n \in 1..Len(commands)
    BY <1>8, <2>1
  <2> QED BY <1>6, <1>12, <2>1, <2>2, ElementOfSeq
<1>14. h = IF o < c THEN n ELSE 0
  <2>1. 1 \in DOMAIN toSend /\ (1 < Len(toSend) <=> o < c)
    BY <1>8, <1>11, <1>13 DEF Shrunk
  <2> QED BY <1>11, <1>13, <2>1
<1>15. PICK num2, off2 :
         /\ num2 = [j \in 0..(u + 1) |-> IF j <= u THEN num[j] ELSE IF o < c THEN n ELSE n + 1]
         /\ off2 = [j \in 0..(u + 1) |-> IF j <= u THEN off[j] ELSE IF o < c THEN o + 1 ELSE 0]
  OBVIOUS
<1>16. /\ num2 \in [0..(u + 1) -> Nat \ {0}] /\ off2 \in [0..(u + 1) -> Nat]
       /\ \A j \in 0..u : num2[j] = num[j] /\ off2[j] = off[j]
       /\ num2[u + 1] = (IF o < c THEN n ELSE n + 1)
       /\ off2[u + 1] = (IF o < c THEN o + 1 ELSE 0)
  BY <1>6, <1>8, <1>15
<1>17. /\ lBuffer'[w] = h
       /\ \A j \in 0..(u - 1) : lBuffer'[Place(kRingBufferSize, r, j)] = lBuffer[Place(kRingBufferSize, r, j)]
       /\ DOMAIN lBuffer' = 0..(kRingBufferSize - 1) /\ w \in 0..(kRingBufferSize - 1)
  <2>1. w \in 0..(kRingBufferSize - 1)
    BY <1>6, <1>7 DEF RingPlaces
  <2>2. \A j \in 0..(u - 1) : /\ Place(kRingBufferSize, r, j) \in 0..(kRingBufferSize - 1)
                              /\ Place(kRingBufferSize, r, j) # w
    <3>1. \A j \in 0..(u - 1) : j \in 0..(kRingBufferSize - 1) /\ j # u /\ j \in 0..kRingBufferSize
      BY <1>6
    <3>2. u \in 0..(kRingBufferSize - 1)
      BY <1>6
    <3> QED BY <1>6, <1>7, <3>1, <3>2 DEF RingPlaces
  <2> QED BY <1>1, <1>4, <1>6, <1>9, <2>1, <2>2
<1>18. RingEnds'
  <2>1. lWriteIndex' = Place(kRingBufferSize, r, u + 1)
    <3>1. u \in 0..(kRingBufferSize - 1)
      BY <1>6
    <3> QED BY <1>1, <1>4, <1>6, <1>7, <3>1 DEF RingPlaces
  <2>2. unread' = u + 1 /\ lReadIndex' = r
    BY <1>1, <1>4
  <2> QED BY <1>1, <1>2, <1>6, <1>11, <1>17, <2>1, <2>2, RingConstants DEF RingEnds
<1>19. LinesAreCommands'
  BY <1>1, <1>2 DEF LinesAreCommands
<1>20. Flow(num2, off2)'
  <2>1. Written(num2, off2)'
    <3>1. ASSUME NEW j \in 0..u
          PROVE  /\ num2[j] <= Len(commands) /\ off2[j] <= commands[num2[j]]
                 /\ IF off2[j] < commands[num2[j]]
                    THEN /\ lBuffer'[Place(kRingBufferSize, r, j)] = num2[j]
                         /\ num2[j + 1] = num2[j] /\ off2[j + 1] = off2[j] + 1
                    ELSE /\ lBuffer'[Place(kRingBufferSize, r, j)] = 0
                         /\ num2[j + 1] = num2[j] + 1 /\ off2[j + 1] = 0
      <4>1. CASE j = u
        <5>1. num2[j] = n /\ off2[j] = o
          BY <1>5, <1>16, <3>1, <4>1
        <5>2. lBuffer'[Place(kRingBufferSize, r, j)] = h
          BY <1>6, <1>17, <4>1
        <5>3. num2[j + 1] = (IF o < c THEN n ELSE n + 1) /\ off2[j + 1] = (IF o < c THEN o + 1 ELSE 0)
          BY <1>16, <4>1
        <5>4. commands[num2[j]] = c /\ num2[j] <= Len(commands) /\ off2[j] <= c
          BY <1>8, <1>12, <1>13, <5>1
        <5> QED BY <1>14, <5>1, <5>2, <5>3, <5>4
      <4>2. CASE j # u
        <5>1. j \in 0..(u - 1) /\ j + 1 \in 0..u /\ j \in 0..u
          BY <1>6, <3>1, <4>2
        <5>2. /\ num2[j] = num[j] /\ off2[j] = off[j]
              /\ num2[j + 1] = num[j + 1] /\ off2[j + 1] = off[j + 1]
          BY <1>16, <5>1
        <5>3. lBuffer'[Place(kRingBufferSize, r, j)] = lBuffer[Place(kRingBufferSize, r, j)]
          BY <1>17, <5>1
        <5> QED BY <1>3, <1>4, <5>1, <5>2, <5>3 DEF Flow, Written
      <4> QED BY <4>1, <4>2
    <3>2. unread' = u + 1 /\ lReadIndex' = r /\ commands' = commands /\ (u + 1) - 1 = u
      BY <1>1, <1>4, <1>6
    <3> QED BY <3>1, <3>2 DEF Written
  <2>2. LineBegun(num2[0], off2[0])'
    <3>1. num2[0] = num[0] /\ off2[0] = off[0]
      BY <1>6, <1>16
    <3> QED BY <1>1, <1>3, <3>1 DEF Flow, LineBegun
  <2>3. ToBeSent(num2[u + 1], off2[u + 1])'
    <3>1. CASE o < c
      <4>1. toSend' # <<>> /\ Len(toSend') = c + 1 - (o + 1)
        BY <1>8, <1>11, <1>13, <3>1, EmptySeq DEF Shrunk
      <4>2. \A m \in DOMAIN toSend' : toSend'[m] = IF m < Len(toSend') THEN n ELSE 0
        <5>1. ASSUME NEW m \in DOMAIN toSend' PROVE toSend'[m] = IF m < Len(toSend') THEN n ELSE 0
          <6>0. PICK l : l = Len(toSend)
            OBVIOUS
          <6>1. /\ l \in Nat \ {0} /\ Len(toSend') = l - 1 /\ DOMAIN toSend = 1..l
                /\ DOMAIN toSend' = 1..(l - 1)
                /\ \A k \in 1..(l - 1) : toSend'[k] = toSend[k + 1]
            BY <1>11, <6>0 DEF Shrunk
          <6>2. /\ m + 1 \in DOMAIN toSend /\ toSend'[m] = toSend[m + 1]
                /\ (m + 1 < l <=> m < Len(toSend'))
            BY <5>1, <6>1
          <6> QED BY <1>13, <6>0, <6>2
        <5> QED BY <5>1
      <4>3. num2[u + 1] = n /\ off2[u + 1] = o + 1
        BY <1>16, <3>1
      <4>4. /\ commands' = commands /\ n = Len(commands) /\ o + 1 <= commands[n]
            /\ Len(toSend') = commands[n] + 1 - (o + 1)
        BY <1>1, <1>8, <1>12, <1>13, <3>1, <4>1
      <4>5. ToBeSent(n, o + 1)'
        BY <4>1, <4>2, <4>4 DEF ToBeSent
      <4> QED BY <4>3, <4>5
    <3>2. CASE ~(o < c)
      <4>1. Len(toSend') = 0
        BY <1>8, <1>11, <1>13, <3>2 DEF Shrunk
      <4>2. toSend' = <<>>
        BY <1>11, <4>1, EmptySeq
      <4> QED BY <1>1, <1>13, <1>16, <3>2, <4>2 DEF ToBeSent
    <3> QED BY <3>1, <3>2
  <2>4. unread' = u + 1
    BY <1>1, <1>4
  <2> QED BY <1>16, <2>1, <2>2, <2>3, <2>4 DEF Flow
<1>21. overrun' \in BOOLEAN
  BY <1>1 DEF Ring!fAddByteToBuffer
<1> QED BY <1>18, <1>19, <1>20, <1>21 DEF RingInv

\* fNextLine takes a byte.
LEMMA NextLineStep ==
  ASSUME RingInv, Ring!fNextLine, ~overrun
  PROVE  RingInv'
<1>1. /\ lWriteIndex # lReadIndex
      /\ lReadIndex' = (lReadIndex + 1) % kRingBufferSize
      /\ unread' = unread - 1
      /\ UNCHANGED <<lBuffer, lWriteIndex, toSend, commands, overrun>>
  BY DEF Ring!fNextLine
<1>2. RingEnds /\ LinesAreCommands
  BY DEF RingInv
<1>3. PICK num, off : Flow(num, off)
  BY DEF RingInv
<1>4. PICK u, r, b : u = unread /\ r = lReadIndex /\ b = lBuffer[lReadIndex]
  OBVIOUS
<1>5. PICK n, o : n = num[0] /\ o = off[0]
  OBVIOUS
<1>6. /\ kRingBufferSize \in Nat \ {0} /\ u \in 0..(kRingBufferSize - 1)
      /\ r \in 0..(kRingBufferSize - 1) /\ lWriteIndex = Place(kRingBufferSize, r, u)
      /\ DOMAIN lBuffer = 0..(kRingBufferSize - 1) /\ commands \in Seq(Nat)
      /\ lLine \in Seq(Nat) /\ lines \in Seq(Seq(Nat))
      /\ num \in [0..u -> Nat \ {0}] /\ off \in [0..u -> Nat]
      /\ kLineBufferSize \in Nat \ {0}
  BY <1>2, <1>3, <1>4, RingConstants DEF RingEnds, Flow
<1>7. RingPlaces(kRingBufferSize, r)
  BY <1>6, PlaceFacts
<1>8. u > 0 /\ 0 \in 0..u /\ 0 \in 0..(u - 1)
  <2>1. u # 0
    <3>1. Place(kRingBufferSize, r, 0) = r
      BY <1>7 DEF RingPlaces
    <3> QED BY <1>1, <1>4, <1>6, <3>1
  <2> QED BY <1>6, <2>1
<1>9. n \in Nat \ {0} /\ o \in Nat /\ Len(commands) \in Nat /\ Len(lines) \in Nat /\ Len(lLine) \in Nat
  BY <1>5, <1>6, <1>8, LenProperties
<1>10. PICK c : c = commands[n]
  OBVIOUS
<1>11. /\ n <= Len(commands) /\ o <= c
       /\ IF o < c THEN b = n /\ num[1] = n /\ off[1] = o + 1
                   ELSE b = 0 /\ num[1] = n + 1 /\ off[1] = 0
  <2>1. Place(kRingBufferSize, r, 0) = r /\ 0 + 1 = 1
    BY <1>7 DEF RingPlaces
  <2> QED BY <1>3, <1>4, <1>5, <1>8, <1>10, <2>1 DEF Flow, Written
<1>12. c \in Nat
  <2>1. n \in 1..Len(commands)
    BY <1>9, <1>11
  <2> QED BY <1>6, <1>10, <2>1, ElementOfSeq
<1>13. /\ n = Len(lines) + 1 /\ Len(lLine) = o % kLineBufferSize
       /\ \A m \in DOMAIN lLine : lLine[m] = n
  BY <1>3, <1>5 DEF Flow, LineBegun
<1>14. PICK num2, off2 : /\ num2 = [j \in 0..(u - 1) |-> num[j + 1]]
                         /\ off2 = [j \in 0..(u - 1) |-> off[j + 1]]
  OBVIOUS
<1>15. /\ num2 \in [0..(u - 1) -> Nat \ {0}] /\ off2 \in [0..(u - 1) -> Nat]
       /\ \A j \in 0..(u - 1) : num2[j] = num[j + 1] /\ off2[j] = off[j + 1]
  <2>1. \A j \in 0..(u - 1) : j + 1 \in 0..u
    BY <1>6
  <2> QED BY <1>6, <1>14, <2>1
<1>16. num2[0] = num[1] /\ off2[0] = off[1] /\ num2[u - 1] = num[u] /\ off2[u - 1] = off[u]
  <2>1. u - 1 \in 0..(u - 1) /\ (u - 1) + 1 = u /\ 0 + 1 = 1
    BY <1>6, <1>8
  <2> QED BY <1>8, <1>15, <2>1
<1>17. \A j \in 0..(u - 1) : Place(kRingBufferSize, lReadIndex', j) = Place(kRingBufferSize, r, j + 1)
  <2>1. \A j \in 0..(u - 1) : j \in 0..(kRingBufferSize - 1)
    BY <1>6
  <2> QED BY <1>1, <1>4, <1>7, <2>1 DEF RingPlaces
<1>18. Written(num2, off2)'
  <2>1. ASSUME NEW j \in 0..(u - 2)
        PROVE  /\ num2[j] <= Len(commands) /\ off2[j] <= commands[num2[j]]
               /\ IF off2[j] < commands[num2[j]]
                  THEN /\ lBuffer[Place(kRingBufferSize, r, j + 1)] = num2[j]
                       /\ num2[j + 1] = num2[j] /\ off2[j + 1] = off2[j] + 1
                  ELSE /\ lBuffer[Place(kRingBufferSize, r, j + 1)] = 0
                       /\ num2[j + 1] = num2[j] + 1 /\ off2[j + 1] = 0
    <3>1. j + 1 \in 0..(u - 1) /\ j \in 0..(u - 1)
      BY <1>6, <2>1
    <3>2. num2[j] = num[j + 1] /\ off2[j] = off[j + 1]
      BY <1>15, <3>1
    <3>3. num2[j + 1] = num[(j + 1) + 1] /\ off2[j + 1] = off[(j + 1) + 1]
      BY <1>15, <3>1
    <3> QED BY <1>3, <1>4, <3>1, <3>2, <3>3 DEF Flow, Written
  <2>2. \A j \in 0..(u - 2) : j \in 0..(u - 1)
    BY <1>6
  <2>3. \A j \in 0..(u - 2) : Place(kRingBufferSize, lReadIndex', j) = Place(kRingBufferSize, r, j + 1)
    BY <1>17, <2>2
  <2>4. unread' - 1 = u - 2
    BY <1>1, <1>4, <1>6
  <2> QED BY <1>1, <2>1, <2>3, <2>4 DEF Written
<1>19. ToBeSent(num2[u - 1], off2[u - 1])'
  BY <1>1, <1>3, <1>4, <1>16 DEF Flow, ToBeSent
<1>20. ASSUME lLine' \in Seq(Nat), lines' \in Seq(Seq(Nat)), LinesAreCommands',
              LineBegun(num2[0], off2[0])'
       PROVE  RingInv'
  <2>1. unread' = u - 1 /\ u - 1 \in 0..(kRingBufferSize - 1)
    BY <1>1, <1>4, <1>6, <1>8
  <2>2. lReadIndex' \in Ring!Places
    BY <1>1, <1>4, <1>7, RingConstants DEF RingPlaces
  <2>3. lWriteIndex' = Place(kRingBufferSize, lReadIndex', u - 1)
    <3>1. u - 1 \in 0..(u - 1) /\ (u - 1) + 1 = u
      BY <1>6, <1>8
    <3> QED BY <1>1, <1>6, <1>17, <3>1
  <2>4. RingEnds'
    BY <1>1, <1>2, <1>20, <2>1, <2>2, <2>3 DEF RingEnds
  <2>5. Flow(num2, off2)'
    BY <1>15, <1>18, <1>19, <1>20, <2>1 DEF Flow
  <2> QED BY <1>1, <1>20, <2>4, <2>5 DEF RingInv
<1>21. CASE o < c
  <2>1. b = n /\ num2[0] = n /\ off2[0] = o + 1
    BY <1>11, <1>16, <1>21
  <2>2. /\ lLine' = IF Len(lLine) + 1 = kLineBufferSize THEN <<>> ELSE Append(lLine, n)
        /\ lines' = lines
    BY <1>4, <1>9, <2>1 DEF Ring!fNextLine, Ring!Newline
  <2>3. (o + 1) % kLineBufferSize
           = IF (o % kLineBufferSize) + 1 = kLineBufferSize THEN 0 ELSE (o % kLineBufferSize) + 1
    BY <1>6, <1>9, NextRemainder
  <2>4. /\ lLine' \in Seq(Nat) /\ Len(lLine') = (o + 1) % kLineBufferSize
        /\ \A m \in DOMAIN lLine' : lLine'[m] = n
    <3>1. CASE Len(lLine) + 1 = kLineBufferSize
      <4>1. lLine' = <<>> /\ Len(<<>>) = 0 /\ <<>> \in Seq(Nat) /\ DOMAIN <<>> = {}
        BY <2>2, <3>1
      <4> QED BY <1>13, <2>3, <3>1, <4>1
    <3>2. CASE Len(lLine) + 1 # kLineBufferSize
      <4>1. lLine' = Append(lLine, n)
        BY <2>2, <3>2
      <4>2. lLine' \in Seq(Nat) /\ Grown(lLine, lLine', n)
        BY <1>6, <1>9, <4>1, AppendGrows
      <4>3. Len(lLine') = (o + 1) % kLineBufferSize
        BY <1>13, <2>3, <3>2, <4>2 DEF Grown
      <4>4. \A m \in DOMAIN lLine' : lLine'[m] = n
        BY <1>13, <4>2 DEF Grown
      <4> QED BY <4>2, <4>3, <4>4
    <3> QED BY <3>1, <3>2
  <2>5. LineBegun(num2[0], off2[0])'
    BY <1>13, <2>1, <2>2, <2>4 DEF LineBegun
  <2>6. LinesAreCommands'
    BY <1>1, <1>2, <2>2 DEF LinesAreCommands
  <2> QED BY <1>6, <1>20, <2>2, <2>4, <2>5, <2>6
<1>22. CASE ~(o < c)
  <2>1. b = 0 /\ num2[0] = n + 1 /\ off2[0] = 0 /\ o = c
    BY <1>9, <1>11, <1>12, <1>16, <1>22
  <2>2. lines' = Append(lines, lLine) /\ lLine' = <<>>
    BY <1>4, <2>1 DEF Ring!fNextLine, Ring!Newline
  <2>3. lines' \in Seq(Seq(Nat)) /\ Grown(lines, lines', lLine)
    BY <1>6, <2>2, AppendGrows
  <2>4. Len(<<>>) = 0 /\ <<>> \in Seq(Nat) /\ DOMAIN <<>> = {} /\ 0 % kLineBufferSize = 0
    <3>1. Len(<<>>) = 0 /\ <<>> \in Seq(Nat) /\ DOMAIN <<>> = {}
      OBVIOUS
    <3>2. kLineBufferSize \in Nat \ {0}
      BY <1>6
    <3>3. 0 % kLineBufferSize = 0
      BY ONLY <3>2
    <3> QED BY <3>1, <3>3
  <2>5. Len(lines') = n /\ lines'[n] = lLine /\ \A m \in 1..(n - 1) : lines'[m] = lines[m]
    <3>1. n = Len(lines) + 1
      BY <1>13, Zenon
    <3>2. /\ Len(lines) \in Nat /\ Len(lines') = Len(lines) + 1
          /\ lines'[Len(lines) + 1] = lLine
          /\ \A m \in 1..Len(lines) : lines'[m] = lines[m]
      BY <2>3 DEF Grown
    <3>3. n - 1 = Len(lines)
      BY <3>1, <3>2
    <3> QED BY <3>1, <3>2, <3>3
  <2>6. LineBegun(num2[0], off2[0])'
    BY <2>1, <2>2, <2>4, <2>5 DEF LineBegun
  <2>7. LinesAreCommands'
    <3>1. ASSUME NEW k \in 1..n
          PROVE  /\ \A m \in DOMAIN lines'[k] : lines'[k][m] = k
                 /\ Len(lines'[k]) = commands[k] % kLineBufferSize
      <4>1. CASE k = n
        <5>1. /\ \A m \in DOMAIN lLine : lLine[m] = n
              /\ Len(lLine) = commands[n] % kLineBufferSize
          BY <1>10, <1>13, <2>1, Zenon
        <5> QED BY <2>5, <4>1, <5>1, Zenon
      <4>2. CASE k # n
        <5>1. k \in 1..(n - 1) /\ k \in 1..Len(lines)
          <6>1. n = Len(lines) + 1
            BY <1>13, Zenon
          <6> QED BY <1>9, <3>1, <4>2, <6>1
        <5> QED BY <1>2, <2>5, <5>1 DEF LinesAreCommands
      <4> QED BY <4>1, <4>2
    <3> QED BY <1>1, <1>11, <2>5, <3>1 DEF LinesAreCommands
  <2> QED BY <1>20, <2>2, <2>3, <2>4, <2>6, <2>7
<1> QED BY <1>21, <1>22

LEMMA RingStep ==
  ASSUME RingInv, Ring!Next \/ UNCHANGED Ring!vars
  PROVE  RingInv'
<1>1. overrun \in BOOLEAN
  BY DEF RingInv
<1>2. CASE UNCHANGED Ring!vars
  <2>1. UNCHANGED <<lBuffer, lWriteIndex, lReadIndex, lLine, toSend, commands, lines, unread, overrun>>
    BY <1>2 DEF Ring!vars
  <2>2. RingEnds' <=> RingEnds
    BY <2>1 DEF RingEnds
  <2>3. LinesAreCommands' <=> LinesAreCommands
    BY <2>1 DEF LinesAreCommands
  <2>4. ASSUME NEW num, NEW off, Flow(num, off) PROVE Flow(num, off)'
    <3>1. Written(num, off)'
      BY <2>1, <2>4 DEF Flow, Written
    <3>2. LineBegun(num[0], off[0])'
      BY <2>1, <2>4 DEF Flow, LineBegun
    <3>3. ToBeSent(num[unread], off[unread])'
      BY <2>1, <2>4 DEF Flow, ToBeSent
    <3> QED BY <2>1, <2>4, <3>1, <3>2, <3>3 DEF Flow
  <2>5. overrun' = overrun
    BY <2>1
  <2> QED BY <2>2, <2>3, <2>4, <2>5 DEF RingInv
<1>3. CASE Ring!fAddByteToBuffer
  <2>1. overrun' \in BOOLEAN
    BY <1>3 DEF Ring!fAddByteToBuffer
  <2>2. CASE overrun'
    BY <2>1, <2>2 DEF RingInv
  <2>3. CASE ~overrun'
    BY <1>3, <2>3, AddByteStep
  <2> QED BY <2>2, <2>3
<1>4. CASE Ring!fNextLine
  <2>1. overrun' = overrun
    BY <1>4 DEF Ring!fNextLine
  <2>2. CASE overrun
    BY <1>1, <2>1, <2>2 DEF RingInv
  <2>3. CASE ~overrun
    BY <1>4, <2>3, NextLineStep
  <2> QED BY <2>2, <2>3
<1>5. ASSUME NEW n \in Lengths, Ring!Command(n) PROVE RingInv'
  <2>1. overrun' = overrun
    BY <1>5 DEF Ring!Command
  <2>2. CASE overrun
    BY <1>1, <2>1, <2>2 DEF RingInv
  <2>3. CASE ~overrun
    BY <1>5, <2>3, CommandStep
  <2> QED BY <2>2, <2>3
<1> QED BY <1>2, <1>3, <1>4, <1>5 DEF Ring!Next

\* While the ring was never full each command becomes one line, in order and with nothing of
\* another, complete if it is shorter than a line and without a multiple of what fits into one
\* otherwise, however the interrupts fall between the turns of the loop (fAddByteToBuffer and
\* fNextLine, avrcode/usart.h).
THEOREM CommandsAlwaysArrive == Spec => []CommandsArrive
<1> DEFINE Inv == part = "ring" => RingInv
<1>1. Init => Inv
  BY RingInit DEF Init
<1>2. Inv /\ [Next]_all => Inv'
  BY PartsStep, RingStep
<1>3. ASSUME RingInv PROVE Ring!CommandsArrive
  <2> SUFFICES ASSUME ~overrun PROVE Ring!CommandsArrive
    BY DEF Ring!CommandsArrive
  <2>1. RingEnds /\ LinesAreCommands
    BY <1>3 DEF RingInv
  <2>2. DOMAIN lines = 1..Len(lines)
    BY <2>1, LenProperties DEF RingEnds
  <2>3. ASSUME NEW n \in DOMAIN lines PROVE Ring!ToSet(lines[n]) \subseteq {n}
    BY <2>1, <2>2, <2>3 DEF LinesAreCommands, Ring!ToSet
  <2> QED BY <2>1, <2>2, <2>3 DEF LinesAreCommands, Ring!CommandsArrive
<1>4. Inv => CommandsArrive
  BY <1>3 DEF CommandsArrive
<1> QED BY <1>1, <1>2, <1>4, PTL DEF Spec

-----------------------------------------------------------------------------
(* The lamps (Lamp), by the theorems of LampProofs.  The variables and the *)
(* constants are those of the suite, so what is proved there of a lamp     *)
(* holds of each of the two here.                                          *)

YellowLamp == INSTANCE LampProofs WITH
    Program <- "rgbywd", Touched <- YellowTouched, MaxSets <- MaxLampSets, sets <- lampSets
WhiteLamp == INSTANCE LampProofs WITH
    Program <- "rgbwPCA9533d", Touched <- WhiteTouched, MaxSets <- MaxLampSets,
    sets <- lampSets

LEMMA LampsTurn ==
  ASSUME [Next]_all
  PROVE  /\ part' = part
         /\ part = "yellow" => Yellow!Next \/ UNCHANGED Yellow!vars
         /\ part = "white" => White!Next \/ UNCHANGED White!vars
<1>1. CASE UNCHANGED all
  BY <1>1 DEF all, lampVars, Yellow!vars, White!vars
<1>2. CASE Next
  BY <1>2 DEF Next
<1> QED BY <1>1, <1>2

\* The two instances of the module say the same, definition by definition.
LEMMA YellowIsTheSame ==
  /\ Yellow!LampAssumption <=> YellowLamp!LampAssumption
  /\ Yellow!Init <=> YellowLamp!Init
  /\ Yellow!Next <=> YellowLamp!Next
  /\ Yellow!TypeOK <=> YellowLamp!TypeOK
  /\ Yellow!LampShowsValues <=> YellowLamp!LampShowsValues
  /\ Yellow!DarkIsOff <=> YellowLamp!DarkIsOff
<1>1. Yellow!LampAssumption <=> YellowLamp!LampAssumption
  BY DEF Yellow!LampAssumption, Yellow!Yellow, Yellow!Light, Yellow!Model,
         YellowLamp!LampAssumption, YellowLamp!Yellow, YellowLamp!Light, YellowLamp!Model
<1>2. Yellow!Init <=> YellowLamp!Init
  BY DEF Yellow!Init, Yellow!Yellow, Yellow!Light, Yellow!Model, Yellow!Led, Yellow!Thread,
         YellowLamp!Init, YellowLamp!Yellow, YellowLamp!Light, YellowLamp!Model,
         YellowLamp!Led, YellowLamp!Thread
<1>3. Yellow!TypeOK <=> YellowLamp!TypeOK
  BY DEF Yellow!TypeOK, Yellow!Yellow, Yellow!Light, Yellow!Model, Yellow!Led,
         Yellow!Thread, Yellow!MaxOf, YellowLamp!TypeOK, YellowLamp!Yellow,
         YellowLamp!Light, YellowLamp!Model, YellowLamp!Led, YellowLamp!Thread,
         YellowLamp!MaxOf
<1>4. Yellow!LampShowsValues <=> YellowLamp!LampShowsValues
  BY DEF Yellow!LampShowsValues, Yellow!Yellow, Yellow!Light, Yellow!Led, Yellow!LedsOf,
         Yellow!Pair, Yellow!Thread, Yellow!Inside, YellowLamp!LampShowsValues,
         YellowLamp!Yellow, YellowLamp!Light, YellowLamp!Led, YellowLamp!LedsOf,
         YellowLamp!Pair, YellowLamp!Thread, YellowLamp!Inside
<1>5. Yellow!DarkIsOff <=> YellowLamp!DarkIsOff
  BY DEF Yellow!DarkIsOff, Yellow!Yellow, Yellow!Light, Yellow!Thread, YellowLamp!DarkIsOff,
         YellowLamp!Yellow, YellowLamp!Light, YellowLamp!Thread
<1>6. Yellow!ToLights = YellowLamp!ToLights
  <2>1. \A x, y : Yellow!Times(x, y) = YellowLamp!Times(x, y) /\ Yellow!Lower(x, y) = YellowLamp!Lower(x, y)
    BY DEF Yellow!Times, Yellow!Lower, YellowLamp!Times, YellowLamp!Lower
  <2>2. \A S : Yellow!Min(S) = YellowLamp!Min(S)
    BY DEF Yellow!Min, YellowLamp!Min
  <2>3. \A c, x : Yellow!SetLight(c, x) = YellowLamp!SetLight(c, x)
    BY <2>1 DEF Yellow!SetLight, Yellow!Clamp, YellowLamp!SetLight, YellowLamp!Clamp
  <2>4. \A h, u, v : Yellow!Sector(h, u, v) = YellowLamp!Sector(h, u, v)
    BY <2>1 DEF Yellow!Sector, YellowLamp!Sector
  <2>5. ASSUME NEW h, NEW u, NEW v
        PROVE  Yellow!hsvToRgbYellow(h, u, v) = YellowLamp!hsvToRgbYellow(h, u, v)
    <3>1. PICK c : c = Yellow!Sector(h, u, v) /\ c = YellowLamp!Sector(h, u, v)
      BY <2>4
    <3>2. Yellow!Min({c.r, c.g, c.b}) = YellowLamp!Min({c.r, c.g, c.b})
      BY <2>2
    <3>3. Yellow!Lower((8 * One) \div 10, Yellow!Min({c.r, c.g, c.b}))
            = YellowLamp!Lower((8 * One) \div 10, YellowLamp!Min({c.r, c.g, c.b}))
      BY <2>1, <3>2
    <3>4. PICK w : /\ w = Yellow!Lower((8 * One) \div 10, Yellow!Min({c.r, c.g, c.b}))
                   /\ w = YellowLamp!Lower((8 * One) \div 10, YellowLamp!Min({c.r, c.g, c.b}))
      BY <3>3
    <3>5. Yellow!Min({c.r, c.g}) - w = YellowLamp!Min({c.r, c.g}) - w
      BY <2>2
    <3>6. CASE u = 0 /\ v < (8 * One) \div 10
      BY <2>3, <3>6 DEF Yellow!hsvToRgbYellow, YellowLamp!hsvToRgbYellow
    <3>7. CASE u = 0 /\ v >= (8 * One) \div 10
      BY <2>3, <3>7 DEF Yellow!hsvToRgbYellow, YellowLamp!hsvToRgbYellow
    <3>8. CASE ~(u = 0 /\ v < (8 * One) \div 10) /\ ~(u = 0 /\ v >= (8 * One) \div 10)
      BY <2>3, <3>1, <3>4, <3>5, <3>8 DEF Yellow!hsvToRgbYellow, YellowLamp!hsvToRgbYellow
    <3> QED BY <3>6, <3>7, <3>8
  <2>6. ASSUME NEW h, NEW u, NEW v
        PROVE  Yellow!hsvToRgbWhite(h, u, v) = YellowLamp!hsvToRgbWhite(h, u, v)
    <3>1. PICK c : c = Yellow!Sector(h, u, v) /\ c = YellowLamp!Sector(h, u, v)
      BY <2>4
    <3>2. Yellow!Min({c.r, c.g, c.b}) = YellowLamp!Min({c.r, c.g, c.b})
      BY <2>2
    <3>3. Yellow!Lower(One \div 2, Yellow!Min({c.r, c.g, c.b}))
            = YellowLamp!Lower(One \div 2, YellowLamp!Min({c.r, c.g, c.b}))
      BY <2>1, <3>2
    <3>4. PICK w : /\ w = Yellow!Lower(One \div 2, Yellow!Min({c.r, c.g, c.b}))
                   /\ w = YellowLamp!Lower(One \div 2, YellowLamp!Min({c.r, c.g, c.b}))
      BY <3>3
    <3>6. CASE u = 0 /\ v < One \div 2
      BY <2>3, <3>6 DEF Yellow!hsvToRgbWhite, YellowLamp!hsvToRgbWhite
    <3>7. CASE u = 0 /\ v >= One \div 2
      BY <2>3, <3>7 DEF Yellow!hsvToRgbWhite, YellowLamp!hsvToRgbWhite
    <3>8. CASE ~(u = 0 /\ v < One \div 2) /\ ~(u = 0 /\ v >= One \div 2)
      BY <2>3, <3>1, <3>4, <3>8 DEF Yellow!hsvToRgbWhite, YellowLamp!hsvToRgbWhite
    <3> QED BY <3>6, <3>7, <3>8
  <2> QED
    BY <2>5, <2>6 DEF Yellow!ToLights, Yellow!Yellow, YellowLamp!ToLights, YellowLamp!Yellow
<1>7. Yellow!ToModel = YellowLamp!ToModel
  <2>1. \A x, y : Yellow!Times(x, y) = YellowLamp!Times(x, y) /\ Yellow!Lower(x, y) = YellowLamp!Lower(x, y)
    BY DEF Yellow!Times, Yellow!Lower, YellowLamp!Times, YellowLamp!Lower
  <2>2. \A S : Yellow!Min(S) = YellowLamp!Min(S) /\ Yellow!Max(S) = YellowLamp!Max(S)
    BY DEF Yellow!Min, Yellow!Max, YellowLamp!Min, YellowLamp!Max
  <2>3. \A c, x : Yellow!SetModel(c, x) = YellowLamp!SetModel(c, x)
    BY <2>1 DEF Yellow!SetModel, Yellow!Clamp, Yellow!MaxOf, YellowLamp!SetModel,
           YellowLamp!Clamp, YellowLamp!MaxOf
  <2>4. ASSUME NEW r, NEW g, NEW b PROVE Yellow!FromRgb(r, g, b) = YellowLamp!FromRgb(r, g, b)
    BY SMTT(60) DEF Yellow!FromRgb, YellowLamp!FromRgb, Yellow!SetModel, YellowLamp!SetModel,
           Yellow!Clamp, YellowLamp!Clamp, Yellow!MaxOf, YellowLamp!MaxOf, Yellow!Lower,
           YellowLamp!Lower, Yellow!Max, YellowLamp!Max, Yellow!Min, YellowLamp!Min
  <2>5. Yellow!rgbToHsvYellow = YellowLamp!rgbToHsvYellow
    BY <2>1, <2>4 DEF Yellow!rgbToHsvYellow, YellowLamp!rgbToHsvYellow
  <2>6. Yellow!rgbToHsvWhite = YellowLamp!rgbToHsvWhite
    BY <2>1, <2>4 DEF Yellow!rgbToHsvWhite, YellowLamp!rgbToHsvWhite
  <2> QED
    BY <2>5, <2>6 DEF Yellow!ToModel, Yellow!Yellow, YellowLamp!ToModel, YellowLamp!Yellow
<1>8. \A t : Yellow!Do(t) <=> YellowLamp!Do(t)
  BY <1>6, <1>7 DEF Yellow!Do, Yellow!ReadShadow, Yellow!WriteChip, Yellow!Store,
         Yellow!Recalculate, Yellow!SetBit, Yellow!Yellow, Yellow!Doing, Yellow!GoOn,
         Yellow!Races, Yellow!Inside, Yellow!Pair, Yellow!Other, Yellow!Thread, Yellow!Led,
         Yellow!LedsOf, Yellow!Light, YellowLamp!Do, YellowLamp!ReadShadow,
         YellowLamp!WriteChip, YellowLamp!Store, YellowLamp!Recalculate, YellowLamp!SetBit,
         YellowLamp!Yellow, YellowLamp!Doing, YellowLamp!GoOn, YellowLamp!Races,
         YellowLamp!Inside, YellowLamp!Pair, YellowLamp!Other, YellowLamp!Thread,
         YellowLamp!Led, YellowLamp!LedsOf, YellowLamp!Light
<1>9. \A t, ops : Yellow!Begin(t, ops) <=> YellowLamp!Begin(t, ops)
  BY DEF Yellow!Begin, Yellow!Other, Yellow!Thread, Yellow!Recalculates, YellowLamp!Begin,
         YellowLamp!Other, YellowLamp!Thread, YellowLamp!Recalculates
<1>10. \A c, x : Yellow!Set(c, x) = YellowLamp!Set(c, x)
  BY DEF Yellow!Set, Yellow!SetLight, Yellow!SetModel, Yellow!Clamp, Yellow!Lower,
         Yellow!MaxOf, Yellow!Light, Yellow!Yellow, YellowLamp!Set, YellowLamp!SetLight,
         YellowLamp!SetModel, YellowLamp!Clamp, YellowLamp!Lower, YellowLamp!MaxOf,
         YellowLamp!Light, YellowLamp!Yellow
<1>11. /\ \A c, x : Yellow!Request(c, x) <=> YellowLamp!Request(c, x)
       /\ \A b : Yellow!RequestAutoHue(b) <=> YellowLamp!RequestAutoHue(b)
       /\ Yellow!Toggle <=> YellowLamp!Toggle
       /\ Yellow!OnOff <=> YellowLamp!OnOff
  BY <1>9, <1>10 DEF Yellow!Request, Yellow!RequestAutoHue, Yellow!Toggle, Yellow!OnOff,
         Yellow!Yellow, YellowLamp!Request, YellowLamp!RequestAutoHue, YellowLamp!Toggle,
         YellowLamp!OnOff, YellowLamp!Yellow
<1>12. /\ Yellow!AutoHueYellow <=> YellowLamp!AutoHueYellow
       /\ Yellow!AutoHueWhite <=> YellowLamp!AutoHueWhite
       /\ Yellow!AutoHueByDay <=> YellowLamp!AutoHueByDay
  BY <1>9, <1>10 DEF Yellow!AutoHueYellow, Yellow!AutoHueWhite, Yellow!AutoHueByDay,
         Yellow!AutoHue, Yellow!Yellow, YellowLamp!AutoHueYellow, YellowLamp!AutoHueWhite,
         YellowLamp!AutoHueByDay, YellowLamp!AutoHue, YellowLamp!Yellow
<1>13. ASSUME NEW r, NEW g, NEW b, NEW byA, NEW u, NEW v
       PROVE  Yellow!TurnYellow(r, g, b, byA, u, v) <=> YellowLamp!TurnYellow(r, g, b, byA, u, v)
  <2>1. \A S : Yellow!Max(S) = YellowLamp!Max(S)
    BY DEF Yellow!Max, YellowLamp!Max
  <2>2. PICK c : c = Yellow!getChannelYellow(r, g, b) /\ c = YellowLamp!getChannelYellow(r, g, b)
    BY DEF Yellow!getChannelYellow, YellowLamp!getChannelYellow
  <2>3. Yellow!Clockwise(byA, u, v) <=> YellowLamp!Clockwise(byA, u, v)
    BY DEF Yellow!Clockwise, YellowLamp!Clockwise
  <2>4. Yellow!MaxOf(c) = YellowLamp!MaxOf(c)
    BY DEF Yellow!MaxOf, YellowLamp!MaxOf
  <2>5. PICK incr :
          /\ incr = IF Yellow!Clockwise(byA, u, v) THEN Yellow!MaxOf(c) ELSE -Yellow!MaxOf(c)
          /\ incr = IF YellowLamp!Clockwise(byA, u, v) THEN YellowLamp!MaxOf(c) ELSE -YellowLamp!MaxOf(c)
    BY <2>3, <2>4
  <2>6. PICK old : old = stored[c]
    OBVIOUS
  <2>7. Yellow!Max({1, old - 1}) = YellowLamp!Max({1, old - 1})
    BY <2>1
  <2>8. PICK aim :
          /\ aim = CASE old = 0 -> IF c = "value" /\ incr < 0 THEN One ELSE 1
                      [] old > 0 /\ c = "hue" -> old * (1 + incr \div 20)
                      [] OTHER -> IF incr > 0 THEN old + 1 ELSE Yellow!Max({1, old - 1})
          /\ aim = CASE old = 0 -> IF c = "value" /\ incr < 0 THEN One ELSE 1
                      [] old > 0 /\ c = "hue" -> old * (1 + incr \div 20)
                      [] OTHER -> IF incr > 0 THEN old + 1 ELSE YellowLamp!Max({1, old - 1})
    BY <2>7
  <2> QED
    BY <1>9, <1>10, <2>2, <2>5, <2>6, <2>8 DEF Yellow!TurnYellow, Yellow!Yellow, YellowLamp!TurnYellow,
           YellowLamp!Yellow
<1>14. \A r, g, b, byA, u, v, w :
         Yellow!TurnWhite(r, g, b, byA, u, v, w) <=> YellowLamp!TurnWhite(r, g, b, byA, u, v, w)
  BY <1>9, <1>10 DEF Yellow!TurnWhite, Yellow!getChannelWhite, Yellow!Clockwise,
         Yellow!Yellow, YellowLamp!TurnWhite, YellowLamp!getChannelWhite,
         YellowLamp!Clockwise, YellowLamp!Yellow
<1>15. /\ (\E u \in Yellow!Thread : Yellow!Do(u)) <=> \E u \in YellowLamp!Thread : YellowLamp!Do(u)
       /\ (\E c \in YellowTouched \ {"autoHue"}, x \in Goal : Yellow!Request(c, x))
            <=> \E c \in YellowTouched \ {"autoHue"}, x \in Goal : YellowLamp!Request(c, x)
       /\ (\E b \in BOOLEAN : Yellow!RequestAutoHue(b))
            <=> \E b \in BOOLEAN : YellowLamp!RequestAutoHue(b)
  BY <1>8, <1>11 DEF Yellow!Thread, YellowLamp!Thread
<1>16. (\E r, g, b, byA, u, v \in BOOLEAN :
          \/ Yellow!TurnYellow(r, g, b, byA, u, v)
          \/ \E w \in {1, One} : Yellow!TurnWhite(r, g, b, byA, u, v, w))
        <=> \E r, g, b, byA, u, v \in BOOLEAN :
              \/ YellowLamp!TurnYellow(r, g, b, byA, u, v)
              \/ \E w \in {1, One} : YellowLamp!TurnWhite(r, g, b, byA, u, v, w)
  <2> DEFINE A(r, g, b, byA, u, v) ==
               \/ Yellow!TurnYellow(r, g, b, byA, u, v)
               \/ \E w \in {1, One} : Yellow!TurnWhite(r, g, b, byA, u, v, w)
             B(r, g, b, byA, u, v) ==
               \/ YellowLamp!TurnYellow(r, g, b, byA, u, v)
               \/ \E w \in {1, One} : YellowLamp!TurnWhite(r, g, b, byA, u, v, w)
  <2>1. ASSUME NEW r, NEW g, NEW b, NEW byA, NEW u, NEW v
        PROVE  A(r, g, b, byA, u, v) <=> B(r, g, b, byA, u, v)
    BY <1>13, <1>14
  <2> HIDE DEF A, B
  <2>2. (\E r, g, b, byA, u, v \in BOOLEAN : A(r, g, b, byA, u, v))
        <=> \E r, g, b, byA, u, v \in BOOLEAN : B(r, g, b, byA, u, v)
    <3>1. ASSUME \E r, g, b, byA, u, v \in BOOLEAN : A(r, g, b, byA, u, v)
          PROVE  \E r, g, b, byA, u, v \in BOOLEAN : B(r, g, b, byA, u, v)
      <4>1. PICK r \in BOOLEAN, g \in BOOLEAN, b \in BOOLEAN, byA \in BOOLEAN, u \in BOOLEAN,
                 v \in BOOLEAN : A(r, g, b, byA, u, v)
        BY <3>1
      <4>2. B(r, g, b, byA, u, v)
        BY <2>1, <4>1
      <4> WITNESS r \in BOOLEAN, g \in BOOLEAN, b \in BOOLEAN, byA \in BOOLEAN, u \in BOOLEAN,
                  v \in BOOLEAN
      <4> QED BY <4>2
    <3>2. ASSUME \E r, g, b, byA, u, v \in BOOLEAN : B(r, g, b, byA, u, v)
          PROVE  \E r, g, b, byA, u, v \in BOOLEAN : A(r, g, b, byA, u, v)
      <4>1. PICK r \in BOOLEAN, g \in BOOLEAN, b \in BOOLEAN, byA \in BOOLEAN, u \in BOOLEAN,
                 v \in BOOLEAN : B(r, g, b, byA, u, v)
        BY <3>2
      <4>2. A(r, g, b, byA, u, v)
        BY <2>1, <4>1
      <4> WITNESS r \in BOOLEAN, g \in BOOLEAN, b \in BOOLEAN, byA \in BOOLEAN, u \in BOOLEAN,
                  v \in BOOLEAN
      <4> QED BY <4>2
    <3> QED BY <3>1, <3>2
  <2> QED BY <2>2 DEF A, B
<1>17. Yellow!Next <=> YellowLamp!Next
  BY <1>11, <1>12, <1>15, <1>16 DEF Yellow!Next, YellowLamp!Next
<1> QED BY <1>1, <1>2, <1>3, <1>4, <1>5, <1>17

LEMMA WhiteIsTheSame ==
  /\ White!LampAssumption <=> WhiteLamp!LampAssumption
  /\ White!Init <=> WhiteLamp!Init
  /\ White!Next <=> WhiteLamp!Next
  /\ White!TypeOK <=> WhiteLamp!TypeOK
  /\ White!LampShowsValues <=> WhiteLamp!LampShowsValues
  /\ White!DarkIsOff <=> WhiteLamp!DarkIsOff
<1>1. White!LampAssumption <=> WhiteLamp!LampAssumption
  BY DEF White!LampAssumption, White!Yellow, White!Light, White!Model,
         WhiteLamp!LampAssumption, WhiteLamp!Yellow, WhiteLamp!Light, WhiteLamp!Model
<1>2. White!Init <=> WhiteLamp!Init
  BY DEF White!Init, White!Yellow, White!Light, White!Model, White!Led, White!Thread,
         WhiteLamp!Init, WhiteLamp!Yellow, WhiteLamp!Light, WhiteLamp!Model, WhiteLamp!Led,
         WhiteLamp!Thread
<1>3. White!TypeOK <=> WhiteLamp!TypeOK
  BY DEF White!TypeOK, White!Yellow, White!Light, White!Model, White!Led, White!Thread,
         White!MaxOf, WhiteLamp!TypeOK, WhiteLamp!Yellow, WhiteLamp!Light, WhiteLamp!Model,
         WhiteLamp!Led, WhiteLamp!Thread, WhiteLamp!MaxOf
<1>4. White!LampShowsValues <=> WhiteLamp!LampShowsValues
  BY DEF White!LampShowsValues, White!Yellow, White!Light, White!Led, White!LedsOf,
         White!Pair, White!Thread, White!Inside, WhiteLamp!LampShowsValues,
         WhiteLamp!Yellow, WhiteLamp!Light, WhiteLamp!Led, WhiteLamp!LedsOf, WhiteLamp!Pair,
         WhiteLamp!Thread, WhiteLamp!Inside
<1>5. White!DarkIsOff <=> WhiteLamp!DarkIsOff
  BY DEF White!DarkIsOff, White!Yellow, White!Light, White!Thread, WhiteLamp!DarkIsOff,
         WhiteLamp!Yellow, WhiteLamp!Light, WhiteLamp!Thread
<1>6. White!ToLights = WhiteLamp!ToLights
  <2>1. \A x, y : White!Times(x, y) = WhiteLamp!Times(x, y) /\ White!Lower(x, y) = WhiteLamp!Lower(x, y)
    BY DEF White!Times, White!Lower, WhiteLamp!Times, WhiteLamp!Lower
  <2>2. \A S : White!Min(S) = WhiteLamp!Min(S)
    BY DEF White!Min, WhiteLamp!Min
  <2>3. \A c, x : White!SetLight(c, x) = WhiteLamp!SetLight(c, x)
    BY <2>1 DEF White!SetLight, White!Clamp, WhiteLamp!SetLight, WhiteLamp!Clamp
  <2>4. \A h, u, v : White!Sector(h, u, v) = WhiteLamp!Sector(h, u, v)
    BY <2>1 DEF White!Sector, WhiteLamp!Sector
  <2>5. ASSUME NEW h, NEW u, NEW v
        PROVE  White!hsvToRgbYellow(h, u, v) = WhiteLamp!hsvToRgbYellow(h, u, v)
    <3>1. PICK c : c = White!Sector(h, u, v) /\ c = WhiteLamp!Sector(h, u, v)
      BY <2>4
    <3>2. White!Min({c.r, c.g, c.b}) = WhiteLamp!Min({c.r, c.g, c.b})
      BY <2>2
    <3>3. White!Lower((8 * One) \div 10, White!Min({c.r, c.g, c.b}))
            = WhiteLamp!Lower((8 * One) \div 10, WhiteLamp!Min({c.r, c.g, c.b}))
      BY <2>1, <3>2
    <3>4. PICK w : /\ w = White!Lower((8 * One) \div 10, White!Min({c.r, c.g, c.b}))
                   /\ w = WhiteLamp!Lower((8 * One) \div 10, WhiteLamp!Min({c.r, c.g, c.b}))
      BY <3>3
    <3>5. White!Min({c.r, c.g}) - w = WhiteLamp!Min({c.r, c.g}) - w
      BY <2>2
    <3>6. CASE u = 0 /\ v < (8 * One) \div 10
      BY <2>3, <3>6 DEF White!hsvToRgbYellow, WhiteLamp!hsvToRgbYellow
    <3>7. CASE u = 0 /\ v >= (8 * One) \div 10
      BY <2>3, <3>7 DEF White!hsvToRgbYellow, WhiteLamp!hsvToRgbYellow
    <3>8. CASE ~(u = 0 /\ v < (8 * One) \div 10) /\ ~(u = 0 /\ v >= (8 * One) \div 10)
      BY <2>3, <3>1, <3>4, <3>5, <3>8 DEF White!hsvToRgbYellow, WhiteLamp!hsvToRgbYellow
    <3> QED BY <3>6, <3>7, <3>8
  <2>6. ASSUME NEW h, NEW u, NEW v
        PROVE  White!hsvToRgbWhite(h, u, v) = WhiteLamp!hsvToRgbWhite(h, u, v)
    <3>1. PICK c : c = White!Sector(h, u, v) /\ c = WhiteLamp!Sector(h, u, v)
      BY <2>4
    <3>2. White!Min({c.r, c.g, c.b}) = WhiteLamp!Min({c.r, c.g, c.b})
      BY <2>2
    <3>3. White!Lower(One \div 2, White!Min({c.r, c.g, c.b}))
            = WhiteLamp!Lower(One \div 2, WhiteLamp!Min({c.r, c.g, c.b}))
      BY <2>1, <3>2
    <3>4. PICK w : /\ w = White!Lower(One \div 2, White!Min({c.r, c.g, c.b}))
                   /\ w = WhiteLamp!Lower(One \div 2, WhiteLamp!Min({c.r, c.g, c.b}))
      BY <3>3
    <3>6. CASE u = 0 /\ v < One \div 2
      BY <2>3, <3>6 DEF White!hsvToRgbWhite, WhiteLamp!hsvToRgbWhite
    <3>7. CASE u = 0 /\ v >= One \div 2
      BY <2>3, <3>7 DEF White!hsvToRgbWhite, WhiteLamp!hsvToRgbWhite
    <3>8. CASE ~(u = 0 /\ v < One \div 2) /\ ~(u = 0 /\ v >= One \div 2)
      BY <2>3, <3>1, <3>4, <3>8 DEF White!hsvToRgbWhite, WhiteLamp!hsvToRgbWhite
    <3> QED BY <3>6, <3>7, <3>8
  <2> QED
    BY <2>5, <2>6 DEF White!ToLights, White!Yellow, WhiteLamp!ToLights, WhiteLamp!Yellow
<1>7. White!ToModel = WhiteLamp!ToModel
  <2>1. \A x, y : White!Times(x, y) = WhiteLamp!Times(x, y) /\ White!Lower(x, y) = WhiteLamp!Lower(x, y)
    BY DEF White!Times, White!Lower, WhiteLamp!Times, WhiteLamp!Lower
  <2>2. \A S : White!Min(S) = WhiteLamp!Min(S) /\ White!Max(S) = WhiteLamp!Max(S)
    BY DEF White!Min, White!Max, WhiteLamp!Min, WhiteLamp!Max
  <2>3. \A c, x : White!SetModel(c, x) = WhiteLamp!SetModel(c, x)
    BY <2>1 DEF White!SetModel, White!Clamp, White!MaxOf, WhiteLamp!SetModel,
           WhiteLamp!Clamp, WhiteLamp!MaxOf
  <2>4. ASSUME NEW r, NEW g, NEW b PROVE White!FromRgb(r, g, b) = WhiteLamp!FromRgb(r, g, b)
    BY SMTT(60) DEF White!FromRgb, WhiteLamp!FromRgb, White!SetModel, WhiteLamp!SetModel,
           White!Clamp, WhiteLamp!Clamp, White!MaxOf, WhiteLamp!MaxOf, White!Lower,
           WhiteLamp!Lower, White!Max, WhiteLamp!Max, White!Min, WhiteLamp!Min
  <2>5. White!rgbToHsvYellow = WhiteLamp!rgbToHsvYellow
    BY <2>1, <2>4 DEF White!rgbToHsvYellow, WhiteLamp!rgbToHsvYellow
  <2>6. White!rgbToHsvWhite = WhiteLamp!rgbToHsvWhite
    BY <2>1, <2>4 DEF White!rgbToHsvWhite, WhiteLamp!rgbToHsvWhite
  <2> QED
    BY <2>5, <2>6 DEF White!ToModel, White!Yellow, WhiteLamp!ToModel, WhiteLamp!Yellow
<1>8. \A t : White!Do(t) <=> WhiteLamp!Do(t)
  BY <1>6, <1>7 DEF White!Do, White!ReadShadow, White!WriteChip, White!Store,
         White!Recalculate, White!SetBit, White!Yellow, White!Doing, White!GoOn,
         White!Races, White!Inside, White!Pair, White!Other, White!Thread, White!Led,
         White!LedsOf, White!Light, WhiteLamp!Do, WhiteLamp!ReadShadow, WhiteLamp!WriteChip,
         WhiteLamp!Store, WhiteLamp!Recalculate, WhiteLamp!SetBit, WhiteLamp!Yellow,
         WhiteLamp!Doing, WhiteLamp!GoOn, WhiteLamp!Races, WhiteLamp!Inside, WhiteLamp!Pair,
         WhiteLamp!Other, WhiteLamp!Thread, WhiteLamp!Led, WhiteLamp!LedsOf, WhiteLamp!Light
<1>9. \A t, ops : White!Begin(t, ops) <=> WhiteLamp!Begin(t, ops)
  BY DEF White!Begin, White!Other, White!Thread, White!Recalculates, WhiteLamp!Begin,
         WhiteLamp!Other, WhiteLamp!Thread, WhiteLamp!Recalculates
<1>10. \A c, x : White!Set(c, x) = WhiteLamp!Set(c, x)
  BY DEF White!Set, White!SetLight, White!SetModel, White!Clamp, White!Lower, White!MaxOf,
         White!Light, White!Yellow, WhiteLamp!Set, WhiteLamp!SetLight, WhiteLamp!SetModel,
         WhiteLamp!Clamp, WhiteLamp!Lower, WhiteLamp!MaxOf, WhiteLamp!Light,
         WhiteLamp!Yellow
<1>11. /\ \A c, x : White!Request(c, x) <=> WhiteLamp!Request(c, x)
       /\ \A b : White!RequestAutoHue(b) <=> WhiteLamp!RequestAutoHue(b)
       /\ White!Toggle <=> WhiteLamp!Toggle
       /\ White!OnOff <=> WhiteLamp!OnOff
  BY <1>9, <1>10 DEF White!Request, White!RequestAutoHue, White!Toggle, White!OnOff,
         White!Yellow, WhiteLamp!Request, WhiteLamp!RequestAutoHue, WhiteLamp!Toggle,
         WhiteLamp!OnOff, WhiteLamp!Yellow
<1>12. /\ White!AutoHueYellow <=> WhiteLamp!AutoHueYellow
       /\ White!AutoHueWhite <=> WhiteLamp!AutoHueWhite
       /\ White!AutoHueByDay <=> WhiteLamp!AutoHueByDay
  BY <1>9, <1>10 DEF White!AutoHueYellow, White!AutoHueWhite, White!AutoHueByDay,
         White!AutoHue, White!Yellow, WhiteLamp!AutoHueYellow, WhiteLamp!AutoHueWhite,
         WhiteLamp!AutoHueByDay, WhiteLamp!AutoHue, WhiteLamp!Yellow
<1>13. ASSUME NEW r, NEW g, NEW b, NEW byA, NEW u, NEW v
       PROVE  White!TurnYellow(r, g, b, byA, u, v) <=> WhiteLamp!TurnYellow(r, g, b, byA, u, v)
  BY DEF White!TurnYellow, White!Yellow, WhiteLamp!TurnYellow, WhiteLamp!Yellow
<1>14. \A r, g, b, byA, u, v, w :
         White!TurnWhite(r, g, b, byA, u, v, w) <=> WhiteLamp!TurnWhite(r, g, b, byA, u, v, w)
  BY <1>9, <1>10 DEF White!TurnWhite, White!getChannelWhite, White!Clockwise, White!Yellow,
         WhiteLamp!TurnWhite, WhiteLamp!getChannelWhite, WhiteLamp!Clockwise,
         WhiteLamp!Yellow
<1>15. /\ (\E u \in White!Thread : White!Do(u)) <=> \E u \in WhiteLamp!Thread : WhiteLamp!Do(u)
       /\ (\E c \in WhiteTouched \ {"autoHue"}, x \in Goal : White!Request(c, x))
            <=> \E c \in WhiteTouched \ {"autoHue"}, x \in Goal : WhiteLamp!Request(c, x)
       /\ (\E b \in BOOLEAN : White!RequestAutoHue(b))
            <=> \E b \in BOOLEAN : WhiteLamp!RequestAutoHue(b)
  BY <1>8, <1>11 DEF White!Thread, WhiteLamp!Thread
<1>16. (\E r, g, b, byA, u, v \in BOOLEAN :
          \/ White!TurnYellow(r, g, b, byA, u, v)
          \/ \E w \in {1, One} : White!TurnWhite(r, g, b, byA, u, v, w))
        <=> \E r, g, b, byA, u, v \in BOOLEAN :
              \/ WhiteLamp!TurnYellow(r, g, b, byA, u, v)
              \/ \E w \in {1, One} : WhiteLamp!TurnWhite(r, g, b, byA, u, v, w)
  <2> DEFINE A(r, g, b, byA, u, v) ==
               \/ White!TurnYellow(r, g, b, byA, u, v)
               \/ \E w \in {1, One} : White!TurnWhite(r, g, b, byA, u, v, w)
             B(r, g, b, byA, u, v) ==
               \/ WhiteLamp!TurnYellow(r, g, b, byA, u, v)
               \/ \E w \in {1, One} : WhiteLamp!TurnWhite(r, g, b, byA, u, v, w)
  <2>1. ASSUME NEW r, NEW g, NEW b, NEW byA, NEW u, NEW v
        PROVE  A(r, g, b, byA, u, v) <=> B(r, g, b, byA, u, v)
    BY <1>13, <1>14
  <2> HIDE DEF A, B
  <2>2. (\E r, g, b, byA, u, v \in BOOLEAN : A(r, g, b, byA, u, v))
        <=> \E r, g, b, byA, u, v \in BOOLEAN : B(r, g, b, byA, u, v)
    <3>1. ASSUME \E r, g, b, byA, u, v \in BOOLEAN : A(r, g, b, byA, u, v)
          PROVE  \E r, g, b, byA, u, v \in BOOLEAN : B(r, g, b, byA, u, v)
      <4>1. PICK r \in BOOLEAN, g \in BOOLEAN, b \in BOOLEAN, byA \in BOOLEAN, u \in BOOLEAN,
                 v \in BOOLEAN : A(r, g, b, byA, u, v)
        BY <3>1
      <4>2. B(r, g, b, byA, u, v)
        BY <2>1, <4>1
      <4> WITNESS r \in BOOLEAN, g \in BOOLEAN, b \in BOOLEAN, byA \in BOOLEAN, u \in BOOLEAN,
                  v \in BOOLEAN
      <4> QED BY <4>2
    <3>2. ASSUME \E r, g, b, byA, u, v \in BOOLEAN : B(r, g, b, byA, u, v)
          PROVE  \E r, g, b, byA, u, v \in BOOLEAN : A(r, g, b, byA, u, v)
      <4>1. PICK r \in BOOLEAN, g \in BOOLEAN, b \in BOOLEAN, byA \in BOOLEAN, u \in BOOLEAN,
                 v \in BOOLEAN : B(r, g, b, byA, u, v)
        BY <3>2
      <4>2. A(r, g, b, byA, u, v)
        BY <2>1, <4>1
      <4> WITNESS r \in BOOLEAN, g \in BOOLEAN, b \in BOOLEAN, byA \in BOOLEAN, u \in BOOLEAN,
                  v \in BOOLEAN
      <4> QED BY <4>2
    <3> QED BY <3>1, <3>2
  <2> QED BY <2>2 DEF A, B
<1>17. White!Next <=> WhiteLamp!Next
  BY <1>11, <1>12, <1>15, <1>16 DEF White!Next, WhiteLamp!Next
<1> QED BY <1>1, <1>2, <1>3, <1>4, <1>5, <1>17

\* What holds of the two lamps all the time.
LampsInv == /\ part = "yellow" => YellowLamp!LampInv
            /\ part = "white" => WhiteLamp!LampInv

LEMMA LampsBegin == Init => LampsInv
<1> SUFFICES ASSUME Init PROVE LampsInv
  OBVIOUS
<1>1. /\ part = "yellow" => YellowLamp!Init
      /\ part = "white" => WhiteLamp!Init
  BY YellowIsTheSame, WhiteIsTheSame DEF Init
<1>2. YellowLamp!LampAssumption /\ WhiteLamp!LampAssumption
  BY PartsAssumption, YellowIsTheSame, WhiteIsTheSame
<1> QED BY <1>1, <1>2, YellowLamp!LampInitially, WhiteLamp!LampInitially DEF LampsInv

LEMMA LampsGoOn == LampsInv /\ [Next]_all => LampsInv'
<1> SUFFICES ASSUME LampsInv, [Next]_all PROVE LampsInv'
  OBVIOUS
<1>1. YellowLamp!LampAssumption /\ WhiteLamp!LampAssumption
  BY PartsAssumption, YellowIsTheSame, WhiteIsTheSame
<1>2. /\ part' = part
      /\ part = "yellow" => Yellow!Next \/ UNCHANGED Yellow!vars
      /\ part = "white" => White!Next \/ UNCHANGED White!vars
  BY LampsTurn
<1>3. CASE part = "yellow"
  <2>1. [YellowLamp!Next]_(YellowLamp!vars)
    BY <1>2, <1>3, YellowIsTheSame DEF Yellow!vars, YellowLamp!vars
  <2>2. YellowLamp!LampInv
    BY <1>3 DEF LampsInv
  <2>3. YellowLamp!LampInv'
    BY <1>1, <2>1, <2>2, YellowLamp!LampTurn
  <2> QED BY <1>2, <1>3, <2>3 DEF LampsInv
<1>4. CASE part = "white"
  <2>1. [WhiteLamp!Next]_(WhiteLamp!vars)
    BY <1>2, <1>4, WhiteIsTheSame DEF White!vars, WhiteLamp!vars
  <2>2. WhiteLamp!LampInv
    BY <1>4 DEF LampsInv
  <2>3. WhiteLamp!LampInv'
    BY <1>1, <2>1, <2>2, WhiteLamp!LampTurn
  <2> QED BY <1>2, <1>4, <2>3 DEF LampsInv
<1> QED BY <1>2, <1>3, <1>4 DEF LampsInv

LEMMA LampsFollow == LampsInv => LampShowsValues /\ DarkIsOff
<1> SUFFICES ASSUME LampsInv PROVE LampShowsValues /\ DarkIsOff
  OBVIOUS
<1>1. CASE part = "yellow"
  <2>1. YellowLamp!TypesInv /\ YellowLamp!LightsInv /\ YellowLamp!OffInv
    BY <1>1 DEF LampsInv, YellowLamp!LampInv
  <2>2. YellowLamp!LampShowsValues /\ YellowLamp!DarkIsOff
    BY <2>1, YellowLamp!ShownFollows, YellowLamp!OffFollows
  <2> QED BY <1>1, <2>2, YellowIsTheSame DEF LampShowsValues, DarkIsOff
<1>2. CASE part = "white"
  <2>1. WhiteLamp!TypesInv /\ WhiteLamp!LightsInv /\ WhiteLamp!OffInv
    BY <1>2 DEF LampsInv, WhiteLamp!LampInv
  <2>2. WhiteLamp!LampShowsValues /\ WhiteLamp!DarkIsOff
    BY <2>1, WhiteLamp!ShownFollows, WhiteLamp!OffFollows
  <2> QED BY <1>2, <2>2, WhiteIsTheSame DEF LampShowsValues, DarkIsOff
<1> QED BY <1>1, <1>2 DEF LampShowsValues, DarkIsOff

\* However a request and the main loop set lights at the same time, even two of one PCA9533
\* with their read and write of its ls0, all LEDs of a light show what is stored for it,
\* unless the two have met at it (lightChannel::set and whiteChannel::set, rgbywd.cpp;
\* channelPair::set, rgbwPCA9533d.cpp).
THEOREM LampAlwaysShowsValues == Spec => []LampShowsValues
BY LampsBegin, LampsGoOn, LampsFollow, PTL DEF Spec

\* Whatever is set, turned and recalculated in between, for every number of levels: with both
\* threads done and not mixed up the value is zero exactly when all lights are off (hsvToRgb
\* and rgbToHsv of both daemons).
THEOREM DarkIsAlwaysOff == Spec => []DarkIsOff
BY LampsBegin, LampsGoOn, LampsFollow, PTL DEF Spec

-----------------------------------------------------------------------------
(* The types of all parts *)

\* A line is shorter than its buffer after each byte.
RingTypes == /\ Ring!TypeOK
             /\ Len(lLine) < kLineBufferSize
             /\ lines \in Seq(Seq(0..MaxCommands))

LEMMA RingTypesInit == Ring!Init => RingTypes
<1> SUFFICES ASSUME Ring!Init PROVE RingTypes
  OBVIOUS
<1>1. /\ \A S : <<>> \in Seq(S)
      /\ Len(<<>>) = 0 /\ DOMAIN <<>> = {}
  OBVIOUS
<1>2. MaxCommands \in Nat /\ kRingBufferSize \in Nat /\ kRingBufferSize > 1
  BY PartsAssumption DEF Ring!RingAssumption
<1>3. /\ lBuffer = [k \in Ring!Places |-> 0] /\ lWriteIndex = 0 /\ lReadIndex = 0
      /\ lLine = <<>> /\ toSend = <<>> /\ commands = <<>> /\ lines = <<>> /\ overrun = FALSE
  BY DEF Ring!Init, Ring!Newline
<1>4. lBuffer \in [Ring!Places -> 0..MaxCommands] /\ 0 \in Ring!Places
  BY <1>2, <1>3, RingConstants
<1>5. 0 < kLineBufferSize /\ 0 <= kLineBufferSize
  BY RingConstants
<1> QED BY <1>1, <1>3, <1>4, <1>5 DEF Ring!TypeOK, RingTypes

LEMMA RingTypesStep == RingTypes /\ (Ring!Next \/ UNCHANGED Ring!vars) => RingTypes'
<1> SUFFICES ASSUME RingTypes, Ring!Next \/ UNCHANGED Ring!vars PROVE RingTypes'
  OBVIOUS
<1>1. /\ MaxCommands \in Nat /\ kRingBufferSize \in Nat \ {0} /\ kLineBufferSize \in Nat
      /\ Ring!Places = 0..(kRingBufferSize - 1) /\ Lengths \subseteq Nat
  BY PartsAssumption, RingConstants DEF Ring!RingAssumption
<1>2. /\ lBuffer \in [Ring!Places -> 0..MaxCommands]
      /\ lWriteIndex \in Ring!Places /\ lReadIndex \in Ring!Places
      /\ lLine \in Seq(1..MaxCommands) /\ Len(lLine) < kLineBufferSize /\ Len(lLine) \in Nat
      /\ toSend \in Seq(0..MaxCommands) /\ commands \in Seq(Lengths)
      /\ lines \in Seq(Seq(0..MaxCommands)) /\ overrun \in BOOLEAN
  BY LenProperties DEF RingTypes, Ring!TypeOK
<1>3. \A k \in Ring!Places : (k + 1) % kRingBufferSize \in Ring!Places
  BY <1>1
<1>4. ASSUME /\ lBuffer' \in [Ring!Places -> 0..MaxCommands]
             /\ lWriteIndex' \in Ring!Places /\ lReadIndex' \in Ring!Places
             /\ lLine' \in Seq(1..MaxCommands) /\ Len(lLine') < kLineBufferSize
             /\ Len(lLine') \in Nat
             /\ toSend' \in Seq(0..MaxCommands) /\ commands' \in Seq(Lengths)
             /\ lines' \in Seq(Seq(0..MaxCommands)) /\ overrun' \in BOOLEAN
      PROVE  RingTypes'
  <2>1. \A k \in DOMAIN lines' : lines'[k] \in Seq(0..MaxCommands)
    <3>1. DOMAIN lines' = 1..Len(lines')
      BY <1>4, LenProperties
    <3> QED BY <1>4, <3>1, ElementOfSeq
  <2>2. Len(lLine') <= kLineBufferSize
    BY <1>1, <1>4
  <2> QED BY <1>4, <2>1, <2>2 DEF RingTypes, Ring!TypeOK
<1>5. CASE UNCHANGED Ring!vars
  BY <1>2, <1>4, <1>5 DEF Ring!vars
<1>6. CASE Ring!fAddByteToBuffer
  <2>1. /\ toSend # <<>> /\ toSend' = Tail(toSend)
        /\ lBuffer' = [lBuffer EXCEPT ![lWriteIndex] = Head(toSend)]
        /\ lWriteIndex' = (lWriteIndex + 1) % kRingBufferSize /\ overrun' \in BOOLEAN
        /\ UNCHANGED <<lReadIndex, lLine, commands, lines>>
    BY <1>6 DEF Ring!fAddByteToBuffer
  <2>2. Tail(toSend) \in Seq(0..MaxCommands) /\ Head(toSend) \in 0..MaxCommands
    BY <1>2, <2>1, TailShrinks
  <2> QED BY <1>2, <1>3, <1>4, <2>1, <2>2
<1>7. CASE Ring!fNextLine
  <2>1. /\ lReadIndex' = (lReadIndex + 1) % kRingBufferSize
        /\ UNCHANGED <<lBuffer, lWriteIndex, toSend, commands, overrun>>
    BY <1>7 DEF Ring!fNextLine
  <2>2. lBuffer[lReadIndex] \in 0..MaxCommands
    BY <1>2
  <2>3. /\ lLine' \in Seq(1..MaxCommands) /\ Len(lLine') < kLineBufferSize /\ Len(lLine') \in Nat
        /\ lines' \in Seq(Seq(0..MaxCommands))
    <3>1. <<>> \in Seq(1..MaxCommands) /\ Len(<<>>) = 0 /\ 0 < kLineBufferSize
      BY <1>1, <1>2
    <3>2. CASE lBuffer[lReadIndex] = 0
      <4>1. lines' = Append(lines, lLine) /\ lLine' = <<>>
        BY <1>7, <3>2 DEF Ring!fNextLine, Ring!Newline
      <4>2. lLine \in Seq(0..MaxCommands)
        <5>1. lLine \in [1..Len(lLine) -> 1..MaxCommands]
          BY <1>2, LenProperties
        <5>2. lLine \in [1..Len(lLine) -> 0..MaxCommands]
          BY <1>1, <5>1
        <5>3. PICK m \in Nat : m = Len(lLine)
          BY <1>2
        <5>4. lLine \in [1..m -> 0..MaxCommands]
          BY <5>2, <5>3
        <5> QED BY <5>4, SeqDef
      <4>3. Append(lines, lLine) \in Seq(Seq(0..MaxCommands))
        BY <1>2, <4>2, AppendGrows
      <4> QED BY <3>1, <4>1, <4>3
    <3>3. CASE lBuffer[lReadIndex] # 0 /\ Len(lLine) + 1 = kLineBufferSize
      <4>1. lines' = lines /\ lLine' = <<>>
        BY <1>7, <3>3 DEF Ring!fNextLine, Ring!Newline
      <4> QED BY <1>2, <3>1, <4>1
    <3>4. CASE lBuffer[lReadIndex] # 0 /\ Len(lLine) + 1 # kLineBufferSize
      <4>1. lines' = lines /\ lLine' = Append(lLine, lBuffer[lReadIndex])
        BY <1>7, <3>4 DEF Ring!fNextLine, Ring!Newline
      <4>2. lBuffer[lReadIndex] \in 1..MaxCommands
        BY <2>2, <3>4
      <4>3. /\ Append(lLine, lBuffer[lReadIndex]) \in Seq(1..MaxCommands)
            /\ Len(Append(lLine, lBuffer[lReadIndex])) = Len(lLine) + 1
        BY <1>2, <4>2, AppendGrows DEF Grown
      <4>4. Len(lLine) + 1 < kLineBufferSize
        BY <1>1, <1>2, <3>4
      <4> QED BY <1>2, <4>1, <4>3, <4>4
    <3> QED BY <3>2, <3>3, <3>4
  <2> QED BY <1>2, <1>3, <1>4, <2>1, <2>3
<1>8. ASSUME NEW n \in Lengths, Ring!Command(n) PROVE RingTypes'
  <2>1. PICK c : c = Len(commands)
    OBVIOUS
  <2>2. /\ c < MaxCommands /\ commands' = Append(commands, n)
        /\ toSend' = [k \in 1..(n + 1) |-> IF k <= n THEN c + 1 ELSE 0]
        /\ UNCHANGED <<lBuffer, lWriteIndex, lReadIndex, lLine, lines, overrun>>
    BY <1>8, <2>1 DEF Ring!Command, Ring!Newline
  <2>3. n \in Nat /\ c \in Nat
    BY <1>1, <1>2, <2>1, LenProperties
  <2>4. toSend' \in Seq(0..MaxCommands)
    <3>1. c + 1 \in 0..MaxCommands /\ 0 \in 0..MaxCommands
      BY <1>1, <2>2, <2>3
    <3>2. toSend' \in [1..(n + 1) -> 0..MaxCommands] /\ n + 1 \in Nat
      BY <2>2, <2>3, <3>1
    <3> QED BY <3>2, SeqDef
  <2>5. commands' \in Seq(Lengths)
    BY <1>2, <2>2, AppendGrows
  <2> QED BY <1>2, <1>4, <2>2, <2>4, <2>5
<1> QED BY <1>5, <1>6, <1>7, <1>8 DEF Ring!Next

\* Where a pulse is within its period, and how far the loop has come with them.
Register == {s \in (0..Full) \X (0..Full) : s[1] <= s[2]}
Passed == CASE pwmPc = "compose" -> i - 1 [] pwmPc = "send" -> Channels [] OTHER -> 0
PwmInv == /\ {values, valuesRemote, valuesNew} \subseteq [1..Channels -> Levels]
          /\ pwmPc \in {"compare", "copy", "compose", "send"} /\ i \in 1..Channels
          /\ totalPulse \in Nat /\ totalPulse <= Passed * (Full - 1)
          /\ device \in [1..Channels -> Register]
          /\ regvalues \in [1..Channels -> Register \cup {<<>>}]
          /\ lost \subseteq 1..Channels
          /\ pwmSets \in 0..MaxSets /\ failures \in 0..MaxFailures

LEMMA PwmConstants ==
  /\ Channels \in Nat \ {0} /\ Full \in Nat /\ Full > 1 /\ Levels \subseteq 0..Full
  /\ MaxSets \in Nat /\ MaxFailures \in Nat /\ Pwm!Channel = 1..Channels
BY PartsAssumption DEF Pwm!PwmAssumption, Pwm!Channel

LEMMA PwmTypes == PwmInv => Pwm!TypeOK
<1> SUFFICES ASSUME PwmInv PROVE Pwm!TypeOK
  OBVIOUS
<1>1. \A s \in Register : 0 <= s[1] /\ s[1] <= s[2] /\ s[2] <= Full
  BY PwmConstants DEF Register
<1>2. PICK n \in Nat : n = Full - 1
  BY PwmConstants
<1>3. PICK m \in 0..Channels : m = Passed
  BY PwmConstants DEF PwmInv, Passed
<1>4. m * n <= Channels * n
  <2>1. PICK d \in Nat : Channels = m + d
    <3>1. Channels - m \in Nat /\ Channels = m + (Channels - m)
      BY <1>3, PwmConstants
    <3> QED BY <3>1
  <2>2. (m + d) * n = m * n + d * n /\ m * n \in Nat /\ d * n \in Nat
    BY <1>2, <1>3, <2>1
  <2> QED BY <2>1, <2>2
<1>5. totalPulse \in 0..(Channels * (Full - 1))
  <2>1. totalPulse \in Nat /\ totalPulse <= m * n
    BY <1>2, <1>3 DEF PwmInv
  <2>2. m * n \in Nat /\ Channels * n \in Nat
    BY <1>2, <1>3, PwmConstants
  <2>3. totalPulse \in 0..(Channels * n)
    BY <1>4, <2>1, <2>2
  <2> QED BY <1>2, <2>3
<1>6. \A c \in 1..Channels :
        \A s \in {device[c]} \cup IF regvalues[c] = <<>> THEN {} ELSE {regvalues[c]} :
          s \in Register
  BY DEF PwmInv
<1> QED BY <1>1, <1>5, <1>6, PwmConstants DEF PwmInv, Pwm!TypeOK

LEMMA PwmInit == Pwm!Init => PwmInv
<1> SUFFICES ASSUME Pwm!Init PROVE PwmInv
  OBVIOUS
<1>1. <<0, 0>> \in Register
  BY PwmConstants DEF Register
<1>2. Passed = 0 /\ 0 * (Full - 1) = 0
  BY PwmConstants DEF Pwm!Init, Passed
<1> QED BY <1>1, <1>2, PwmConstants DEF Pwm!Init, Pwm!Off, Pwm!NoRegisters, PwmInv

\* What a level is composed to lies within a period.
LEMMA SettingIsRegister ==
  ASSUME NEW level \in 0..Full, totalPulse \in Nat
  PROVE  /\ Pwm!Setting(level) \in Register
         /\ Pwm!Pulses(level) \in 0..(Full - 1)
<1>1. Pwm!Pulses(level) \in 0..(Full - 1)
  BY PwmConstants DEF Pwm!Pulses
<1>2. PICK start \in Nat : start = IF totalPulse + level < Full THEN totalPulse ELSE 0
  OBVIOUS
<1>3. start + level <= Full /\ start <= start + level /\ start + level \in Nat
  BY <1>2, PwmConstants
<1>4. <<start, start + level>> \in Register /\ <<0, 0>> \in Register /\ <<0, Full>> \in Register
  BY <1>2, <1>3, PwmConstants DEF Register
<1> QED BY <1>1, <1>2, <1>4 DEF Pwm!Setting, Pwm!Off, Pwm!On, Pwm!Pulse

LEMMA PwmStep == PwmInv /\ (Pwm!Next \/ UNCHANGED Pwm!vars) => PwmInv'
<1> SUFFICES ASSUME PwmInv, Pwm!Next \/ UNCHANGED Pwm!vars PROVE PwmInv'
  OBVIOUS
<1> USE PwmConstants
<1>1. CASE UNCHANGED Pwm!vars
  BY <1>1 DEF Pwm!vars, PwmInv, Passed
<1>2. ASSUME NEW c \in Pwm!Channel, NEW level \in Levels, Pwm!Store(c, level) PROVE PwmInv'
  <2>1. pwmSets' \in 0..MaxSets
    BY <1>2 DEF PwmInv, Pwm!Store
  <2>2. Passed' = Passed
    BY <1>2 DEF Pwm!Store, Passed
  <2> QED BY <1>2, <2>1, <2>2 DEF PwmInv, Pwm!Store
<1>3. ASSUME NEW then, Pwm!Advance(then)
      PROVE  /\ i' \in 1..Channels /\ pwmPc' \in {pwmPc, then}
             /\ i < Channels => i' = i + 1 /\ pwmPc' = pwmPc
             /\ ~(i < Channels) => i = Channels /\ i' = 1 /\ pwmPc' = then
  BY <1>3 DEF Pwm!Advance, PwmInv
<1>4. CASE Pwm!Compare
  <2>1. i' \in 1..Channels /\ pwmPc' \in {"compare", "copy"}
    BY <1>3, <1>4 DEF Pwm!Compare
  <2>2. Passed' = 0 /\ Passed = 0
    BY <1>4, <2>1 DEF Pwm!Compare, Passed
  <2> QED BY <1>4, <2>1, <2>2 DEF PwmInv, Pwm!Compare
<1>5. CASE Pwm!Copy
  <2>1. i' \in 1..Channels /\ pwmPc' \in {"copy", "compose"} /\ (pwmPc' = "compose" => i' = 1)
    BY <1>3, <1>5 DEF Pwm!Copy
  <2>2. Passed' = 0 /\ Passed = 0
    BY <1>5, <2>1 DEF Pwm!Copy, Passed
  <2>3. valuesNew' \in [1..Channels -> Levels]
    BY <1>5 DEF Pwm!Copy, PwmInv
  <2> QED BY <1>5, <2>1, <2>2, <2>3 DEF PwmInv, Pwm!Copy
<1>6. CASE Pwm!Compose
  <2>1. /\ pwmPc = "compose" /\ i \in 1..Channels /\ totalPulse \in Nat
        /\ valuesNew[i] \in Levels /\ valuesNew[i] \in 0..Full
    BY <1>6 DEF Pwm!Compose, PwmInv
  <2>2. Pwm!Setting(valuesNew[i]) \in Register /\ Pwm!Pulses(valuesNew[i]) \in 0..(Full - 1)
    BY <2>1, SettingIsRegister
  <2>3. regvalues' \in [1..Channels -> Register \cup {<<>>}]
    BY <1>6, <2>1, <2>2 DEF Pwm!Compose, PwmInv
  <2>4. valuesRemote' \in [1..Channels -> Levels]
    BY <1>6, <2>1 DEF Pwm!Compose, PwmInv
  <2>5. /\ i' \in 1..Channels /\ pwmPc' \in {"compose", "send"}
        /\ Passed = i - 1 /\ Passed' = i
    <3>1. Pwm!Advance("send")
      BY <1>6 DEF Pwm!Compose
    <3>2. /\ i' \in 1..Channels /\ pwmPc' \in {pwmPc, "send"}
          /\ i < Channels => i' = i + 1 /\ pwmPc' = pwmPc
          /\ ~(i < Channels) => i = Channels /\ i' = 1 /\ pwmPc' = "send"
      BY <1>3, <3>1
    <3> QED BY <2>1, <3>2 DEF Passed
  <2>6. totalPulse' \in Nat /\ totalPulse' <= Passed' * (Full - 1)
    <3>1. PICK n \in Nat : n = Full - 1
      OBVIOUS
    <3>2. PICK p \in 0..n : p = Pwm!Pulses(valuesNew[i])
      BY <2>2, <3>1
    <3>3. PICK m \in Nat : m = i - 1
      BY <2>1
    <3>4. totalPulse' = totalPulse + p /\ totalPulse <= m * n
      BY <1>6, <2>5, <3>1, <3>2, <3>3 DEF Pwm!Compose, PwmInv
    <3>5. (m + 1) * n = m * n + n /\ m * n \in Nat
      BY <3>1, <3>3
    <3>6. totalPulse + p <= (m + 1) * n /\ totalPulse + p \in Nat
      BY <2>1, <3>1, <3>2, <3>4, <3>5
    <3>7. i = m + 1
      BY <2>1, <3>3
    <3> QED BY <2>5, <3>1, <3>4, <3>6, <3>7
  <2> QED BY <1>6, <2>3, <2>4, <2>5, <2>6 DEF PwmInv, Pwm!Compose
<1>7. ASSUME NEW ok \in BOOLEAN, Pwm!sendRequest(ok), failures < MaxFailures \/ ok PROVE PwmInv'
  <2>1. device' \in [1..Channels -> Register]
    BY <1>7 DEF Pwm!sendRequest, Pwm!Changed, PwmInv
  <2>2. regvalues' \in [1..Channels -> Register \cup {<<>>}]
    BY <1>7 DEF Pwm!sendRequest, Pwm!NoRegisters
  <2>3. failures' \in 0..MaxFailures /\ lost' \subseteq 1..Channels
    <3>1. failures \in 0..MaxFailures /\ failures' = IF ok THEN failures ELSE failures + 1
      BY <1>7 DEF Pwm!sendRequest, PwmInv
    <3>2. failures' \in 0..MaxFailures
      BY <1>7, <3>1
    <3>3. lost' = IF ok THEN lost \ Pwm!Changed ELSE lost \cup Pwm!Changed
      BY <1>7 DEF Pwm!sendRequest
    <3>4. lost \subseteq 1..Channels /\ Pwm!Changed \subseteq 1..Channels
      BY DEF Pwm!Changed, PwmInv
    <3> QED BY <3>2, <3>3, <3>4
  <2>4. Passed' = 0 /\ totalPulse' = 0 /\ 0 * (Full - 1) = 0 /\ pwmPc' = "compare"
    BY <1>7 DEF Pwm!sendRequest, Passed
  <2> QED BY <1>7, <2>1, <2>2, <2>3, <2>4 DEF PwmInv, Pwm!sendRequest
<1> QED BY <1>1, <1>2, <1>4, <1>5, <1>6, <1>7 DEF Pwm!Next, Pwm!Sender

LEMMA PwmTurn ==
  ASSUME [Next]_all
  PROVE  part' = part /\ (part = "pwm" => Pwm!Next \/ UNCHANGED Pwm!vars)
<1>1. CASE UNCHANGED all
  BY <1>1 DEF all, pwmVars, Pwm!vars
<1>2. CASE Next
  BY <1>2 DEF Next
<1> QED BY <1>1, <1>2

\* Every part keeps its types, for every value of the constants: in particular a pulse of the
\* PCA9685 lies within its period whatever pulses come before it, and the sum of the pulses is
\* less than 4096 for each channel (senderFunction, rgbywd.cpp), a line of the firmware never
\* fills its buffer (fNextLine, avrcode/usart.h), nor do the pulses theirs (rfio433MHz.cpp).
THEOREM TypesAlwaysOK == Spec => []TypesOK
<1> DEFINE Inv == /\ part = "pwm" => PwmInv
                  /\ part = "camera" => CameraInv
                  /\ part = "power" => SupplyInv
                  /\ part = "buffers" => BuffersInv
                  /\ part = "ring" => RingTypes
                  /\ LampsInv
<1>1. Init => Inv
  BY PwmInit, CameraInit, SupplyInit, BuffersInit, RingTypesInit, LampsBegin DEF Init
<1>2. Inv /\ [Next]_all => Inv'
  <2> SUFFICES ASSUME Inv, [Next]_all PROVE Inv'
    OBVIOUS
  <2>1. part' = part /\ LampsInv'
    BY PwmTurn, LampsGoOn
  <2>2. part = "pwm" => PwmInv'
    BY PwmTurn, PwmStep
  <2>3. part = "camera" => CameraInv'
    BY PartsStep, CameraStep
  <2>4. part = "power" => SupplyInv'
    BY PartsStep, SupplyStep
  <2>5. part = "buffers" => BuffersInv'
    BY PartsStep, BuffersStep
  <2>6. part = "ring" => RingTypes'
    BY PartsStep, RingTypesStep
  <2> QED BY <2>1, <2>2, <2>3, <2>4, <2>5, <2>6
<1>3. Inv => TypesOK
  <2> SUFFICES ASSUME Inv PROVE TypesOK
    OBVIOUS
  <2>1. part = "pwm" => Pwm!TypeOK
    BY PwmTypes
  <2>2. /\ part = "camera" => Cam!TypeOK
        /\ part = "power" => Supply!TypeOK
        /\ part = "buffers" => Buffers!TypeOK
        /\ part = "ring" => Ring!TypeOK
    BY DEF CameraInv, SupplyInv, BuffersInv, BuffersType, RingTypes
  <2>3. part = "yellow" => Yellow!TypeOK
    <3>1. part = "yellow" => YellowLamp!TypesInv
      BY DEF LampsInv, YellowLamp!LampInv
    <3> QED BY <3>1, YellowLamp!TypesFollow, YellowIsTheSame, PartsAssumption
  <2>4. part = "white" => White!TypeOK
    <3>1. part = "white" => WhiteLamp!TypesInv
      BY DEF LampsInv, WhiteLamp!LampInv
    <3> QED BY <3>1, WhiteLamp!TypesFollow, WhiteIsTheSame, PartsAssumption
  <2> QED BY <2>1, <2>2, <2>3, <2>4 DEF TypesOK
<1> QED BY <1>1, <1>2, <1>3, PTL DEF Spec

=============================================================================
