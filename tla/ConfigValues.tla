---------------------------- MODULE ConfigValues ----------------------------
(***************************************************************************)
(* An option of a measurement between its daemon and the users of the      *)
(* website: configValueBase::fConfigure, fSave and fUpdate                 *)
(* (base/configValue.cpp), the table uid_configs with its rules            *)
(* (database.sql), the listener of the daemon (base/slowcontrolDaemon.cpp) *)
(* and the form that changes a row (website/configure_value.php).          *)
(*                                                                         *)
(* Of a comment only matters whether it ends in "default".  Options do not *)
(* depend on each other, so there is one; its text in the database and its *)
(* value in the program are the same thing here.                           *)
(***************************************************************************)
EXTENDS Naturals

CONSTANTS Value,      \* what the option may be set to
          NoRow,      \* no row in uid_configs
          MaxEdits,   \* bound: changes by users
          MaxStarts   \* bound: starts of the daemon

ConfigAssumption == /\ Value # {}
                    /\ NoRow \notin [value : Value, default : BOOLEAN]
                    /\ {MaxEdits, MaxStarts} \subseteq Nat

VARIABLES row,        \* the row of uid_configs: its value, and whether the comment is one of
                      \* the defaults
          known,      \* the uid is in uid_list
          pc,         \* what the daemon does next
          compiled,   \* the default of the program that runs
          lValue,     \* the value of the option in the program
          result,     \* the row of the last SELECT
          listening,  \* LISTEN uid_configs_update_<daemonid> is in force
          wire,       \* notifications that have not been processed
          deaf,       \* a user changed the row between the SELECT and the LISTEN of a start
          edits, starts

vars == <<row, known, pc, compiled, lValue, result, listening, wire, deaf, edits, starts>>

Row(v, default) == [value |-> v, default |-> default]
Exists == row # NoRow

Init == /\ row = NoRow
        /\ known = FALSE
        /\ pc = "down"
        /\ compiled = CHOOSE v \in Value : TRUE
        /\ lValue = compiled
        /\ result = NoRow
        /\ listening = FALSE
        /\ wire = 0
        /\ deaf = FALSE
        /\ edits = 0
        /\ starts = 0

\* The rule uid_config_notify_spcific: an UPDATE tells the daemon of the uid.
Notify == wire' = IF listening THEN wire + 1 ELSE wire
-----------------------------------------------------------------------------
\* A program, perhaps a newer one with another default, is started.  fInitializeUid saves
\* the options if it made the uid itself.
Start(v) ==
  /\ pc = "down"
  /\ starts < MaxStarts
  /\ starts' = starts + 1
  /\ compiled' = v
  /\ lValue' = v
  /\ known' = TRUE
  /\ pc' = IF known THEN "select" ELSE "save"
  /\ UNCHANGED <<row, result, listening, wire, deaf, edits>>

\* fSave "initial default" and "later default": an INSERT, refused if there is a row.
Save ==
  /\ pc \in {"save", "saveLater"}
  /\ row' = IF Exists THEN row ELSE Row(lValue, TRUE)
  /\ pc' = IF pc = "save" THEN "select" ELSE "idle"
  /\ UNCHANGED <<known, compiled, lValue, result, listening, wire, deaf, edits, starts>>

\* fConfigure: SELECT, and then for the option what its row says.
Select ==
  /\ pc = "select"
  /\ result' = row
  /\ pc' = "apply"
  /\ UNCHANGED <<row, known, compiled, lValue, listening, wire, deaf, edits, starts>>

Done(v) == lValue' = v /\ pc' = "idle"
ApplyIgnoringComment ==
  /\ pc = "apply"
  /\ IF result = NoRow THEN pc' = "saveLater" /\ UNCHANGED lValue
     ELSE Done(result.value)
  /\ UNCHANGED <<row, known, compiled, result, listening, wire, deaf, edits, starts>>
Apply ==
  /\ pc = "apply"
  /\ IF result = NoRow THEN pc' = "saveLater" /\ UNCHANGED lValue
     ELSE IF result.default /\ result.value # lValue
          THEN pc' = "update" /\ UNCHANGED lValue
          ELSE Done(result.value)
  /\ UNCHANGED <<row, known, compiled, result, listening, wire, deaf, edits, starts>>

\* fUpdate "changed default".  The row may have been changed since the SELECT: that change
\* is overwritten.  The daemon is told of its own UPDATE too.
Update ==
  /\ pc = "update"
  /\ row' = Row(lValue, TRUE)
  /\ Notify
  /\ pc' = "idle"
  /\ UNCHANGED <<known, compiled, lValue, result, listening, deaf, edits, starts>>

\* fConfigChangeListener
Listen ==
  /\ pc = "idle"
  /\ ~listening
  /\ listening' = TRUE
  /\ UNCHANGED <<row, known, pc, compiled, lValue, result, wire, deaf, edits, starts>>

Reconfigure ==
  /\ pc = "idle"
  /\ listening
  /\ wire > 0
  /\ wire' = wire - 1
  /\ pc' = "select"
  /\ UNCHANGED <<row, known, compiled, lValue, result, listening, deaf, edits, starts>>

Crash ==
  /\ pc # "down"
  /\ starts < MaxStarts
  /\ pc' = "down"
  /\ listening' = FALSE
  /\ wire' = 0
  /\ deaf' = FALSE
  /\ UNCHANGED <<row, known, compiled, lValue, result, edits, starts>>

\* The form of valueconfig.php offers the old comment: a user who does not touch it leaves
\* "default" there, one who does writes a comment of the own.
Edit(v, default) ==
  /\ Exists
  /\ edits < MaxEdits
  /\ default => row.default
  /\ row' = Row(v, default)
  /\ Notify
  /\ deaf' = (deaf \/ (pc \in {"apply", "update", "saveLater", "idle"} /\ ~listening))
  /\ edits' = edits + 1
  /\ UNCHANGED <<known, pc, compiled, lValue, result, listening, starts>>

Daemon == Save \/ Select \/ Apply \/ Update \/ Listen \/ Reconfigure
Next == \/ Daemon \/ Crash
        \/ \E v \in Value : Start(v) \/ \E default \in BOOLEAN : Edit(v, default)
Fairness == WF_vars(Daemon) /\ WF_vars(\E v \in Value : Start(v))
Spec == Init /\ [][Next]_vars
FairSpec == Spec /\ Fairness
-----------------------------------------------------------------------------
Rows == [value : Value, default : BOOLEAN] \cup {NoRow}
TypeOK == /\ {row, result} \subseteq Rows
          /\ {known, listening, deaf} \subseteq BOOLEAN
          /\ pc \in {"down", "save", "select", "apply", "update", "saveLater", "idle"}
          /\ {compiled, lValue} \subseteq Value
          /\ wire \in 0..(2 * MaxEdits + 1)
          /\ edits \in 0..MaxEdits
          /\ starts \in 0..MaxStarts

\* Two writers of one row, and notifications of one's own changes: once users and restarts
\* leave it alone, neither goes on overwriting the other, and a daemon that heard of every
\* change agrees with the database.  A default nobody changed is in the end that of the
\* program that runs, also after a program with another one ran before.
AgreeInTheEnd ==
  <>[](/\ pc = "idle" /\ wire = 0
       /\ ~deaf => lValue = row.value
       /\ edits = 0 => row = Row(compiled, TRUE))
=============================================================================
