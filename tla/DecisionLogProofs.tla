--------------------------- MODULE DecisionLogProofs ---------------------------
(***************************************************************************)
(* The decision log implements AppendLog, for every set of decisions and   *)
(* every threshold.  The argument: what is in memory and not in the file   *)
(* only changes hands.  A flusher takes the buffer when its own hands are  *)
(* empty (HandsFree), and as long as no write was interrupted it lets go   *)
(* only of entries whose line is in the file (WrittenOut).                 *)
(***************************************************************************)
EXTENDS DecisionLog, FiniteSetTheorems, TLAPS

(* What is in memory or in the file was logged.                            *)
Known == InMemory \cup OnDisk \subseteq logged

HandsFree ==
  /\ status \in {"up", "stopping"} => batch[Shutdown] = {}
  /\ status \in {"stopping", "draining"} => batch[Loop] = {}

WrittenOut ==
  breaks = 0 => ~torn /\ \A t \in Flusher : batch[t] \ left[t] \subseteq OnDisk

LogInv == TypeOK /\ Known /\ HandsFree /\ WrittenOut

USE DEF Hourly, Shutdown, Loop, Flusher

LEMMA InitHolds == Init => LogInv
<1> SUFFICES ASSUME Init PROVE LogInv
  OBVIOUS
<1>1. \A t \in Flusher : batch[t] = {} /\ left[t] = {}
  BY DEF Init, Idle
<1>2. TypeOK
  BY <1>1, LogAssumption DEF Init, TypeOK, Idle
<1>3. InMemory = {} /\ OnDisk = {}
  BY <1>1 DEF Init, InMemory, OnDisk
<1> QED BY <1>1, <1>2, <1>3 DEF Init, LogInv, Known, HandsFree, WrittenOut

(* A flusher with free hands takes what is in the buffer, and the memory   *)
(* holds what it held.                                                     *)
LEMMA TakeMoves ==
  ASSUME TypeOK, NEW t \in Flusher, NEW S \in SUBSET Entry, batch[t] = {}, buffer \subseteq S,
         Take(t, S)
  PROVE  /\ InMemory' = InMemory \cup S
         /\ batch' \in [Flusher -> SUBSET Entry] /\ left' \in [Flusher -> SUBSET Entry]
         /\ buffer' = {} /\ batch'[t] = S /\ left'[t] = S
         /\ \A u \in Flusher \ {t} : batch'[u] = batch[u] /\ left'[u] = left[u]
  BY DEF TypeOK, Take, InMemory

LEMMA LogKeeps ==
  ASSUME LogInv, NEW e \in Entry, Log(e)
  PROVE  LogInv' /\ InMemory' = InMemory \cup {e} /\ OnDisk' = OnDisk /\ breaks' = breaks
<1> DEFINE S == buffer \cup {e}
<1>1. TypeOK /\ S \in SUBSET Entry /\ batch[Loop] = {} /\ buffer \subseteq S
  BY DEF LogInv, TypeOK, Log, Flushing
<1>2. OnDisk' = OnDisk /\ breaks' = breaks /\ torn' = torn /\ status' = status
  BY DEF Log, file, OnDisk
<1>3. CASE Cardinality(S) >= Threshold
  <2>1. Take(Loop, S)
    BY <1>3 DEF Log
  <2> HIDE DEF S
  <2>2. /\ InMemory' = InMemory \cup S
        /\ batch' \in [Flusher -> SUBSET Entry] /\ left' \in [Flusher -> SUBSET Entry]
        /\ buffer' = {} /\ batch'[Loop] = S /\ left'[Loop] = S
        /\ \A u \in Flusher \ {Loop} : batch'[u] = batch[u] /\ left'[u] = left[u]
    BY <1>1, <2>1, TakeMoves
  <2>3. InMemory' = InMemory \cup {e}
    BY <2>2 DEF S, InMemory
  <2>4. TypeOK'
    BY <1>1, <2>2, <1>2 DEF TypeOK, Log, file
  <2>5. Known' /\ HandsFree' /\ WrittenOut'
    BY <1>1, <1>2, <2>2, <2>3 DEF LogInv, Known, HandsFree, WrittenOut, Log, Flushing
  <2> QED BY <1>2, <2>3, <2>4, <2>5 DEF LogInv
<1>4. CASE ~(Cardinality(S) >= Threshold)
  <2>1. buffer' = S /\ UNCHANGED <<batch, left>>
    BY <1>4 DEF Log
  <2>2. InMemory' = InMemory \cup {e}
    BY <2>1 DEF InMemory
  <2>3. TypeOK'
    BY <1>1, <2>1, <1>2 DEF TypeOK, Log, file
  <2>4. Known' /\ HandsFree' /\ WrittenOut'
    BY <1>2, <2>1, <2>2 DEF LogInv, Known, HandsFree, WrittenOut, Log
  <2> QED BY <1>2, <2>2, <2>3, <2>4 DEF LogInv
<1> QED BY <1>3, <1>4

LEMMA FillKeeps ==
  ASSUME LogInv, NEW e \in Entry, OnFill(e)
  PROVE  LogInv' /\ UNCHANGED <<InMemory, OnDisk, breaks>>
  BY DEF LogInv, TypeOK, Known, HandsFree, WrittenOut, InMemory, OnDisk, OnFill, memory, file

(* The three flushes that take the buffer: the hourly one, the shutdown's  *)
(* and close.                                                              *)
LEMMA FlushKeeps ==
  ASSUME LogInv, FlushHourly \/ FlushAtShutdown \/ Close
  PROVE  LogInv' /\ UNCHANGED <<InMemory, OnDisk, breaks>>
<1>1. TypeOK /\ buffer \in SUBSET Entry
  BY DEF LogInv, TypeOK
<1>2. OnDisk' = OnDisk /\ breaks' = breaks /\ torn' = torn
      /\ UNCHANGED <<session, filled, logged, lines, shown>>
  BY DEF FlushHourly, FlushAtShutdown, Close, book, file, OnDisk
<1>3. ASSUME NEW t \in Flusher, batch[t] = {}, Take(t, buffer)
      PROVE  /\ InMemory' = InMemory
             /\ batch' \in [Flusher -> SUBSET Entry] /\ left' \in [Flusher -> SUBSET Entry]
             /\ buffer' = {} /\ batch'[t] = buffer /\ left'[t] = buffer
             /\ \A u \in Flusher \ {t} : batch'[u] = batch[u] /\ left'[u] = left[u]
  <2>1. InMemory' = InMemory \cup buffer
    BY <1>1, <1>3, TakeMoves
  <2>2. /\ batch' \in [Flusher -> SUBSET Entry] /\ left' \in [Flusher -> SUBSET Entry]
        /\ buffer' = {} /\ batch'[t] = buffer /\ left'[t] = buffer
        /\ \A u \in Flusher \ {t} : batch'[u] = batch[u] /\ left'[u] = left[u]
    BY <1>1, <1>3, TakeMoves
  <2> QED BY <2>1, <2>2 DEF InMemory
<1>4. ASSUME NEW t \in Flusher, batch[t] = {}, Take(t, buffer),
             status' \in {"up", "draining", "closing"},
             status' = "up" => t = Hourly /\ status = "up",
             status' = "draining" => t = Shutdown /\ status = "stopping"
      PROVE  LogInv' /\ UNCHANGED <<InMemory, OnDisk, breaks>>
  <2>1. TypeOK'
    BY <1>1, <1>2, <1>3, <1>4 DEF TypeOK
  <2>2. Known' /\ WrittenOut'
    BY <1>1, <1>2, <1>3, <1>4 DEF LogInv, Known, WrittenOut
  <2>3. HandsFree'
    BY <1>1, <1>3, <1>4 DEF LogInv, HandsFree
  <2> QED BY <1>2, <1>3, <1>4, <2>1, <2>2, <2>3 DEF LogInv
<1>5. CASE FlushHourly
  BY <1>4, <1>5 DEF FlushHourly, Flushing, LogInv, TypeOK
<1>6. CASE FlushAtShutdown
  <2>1. CASE buffer # {}
    BY <1>4, <1>6, <2>1 DEF FlushAtShutdown, LogInv, HandsFree
  <2>2. CASE buffer = {}
    BY <1>2, <1>6, <2>2 DEF FlushAtShutdown, LogInv, TypeOK, Known, HandsFree, WrittenOut, memory,
       InMemory, OnDisk
  <2> QED BY <2>1, <2>2
<1>7. CASE Close
  <2>1. CASE buffer # {}
    BY <1>4, <1>7, <2>1 DEF Close, LogInv, HandsFree
  <2>2. CASE buffer = {}
    BY <1>2, <1>7, <2>2 DEF Close, LogInv, TypeOK, Known, HandsFree, WrittenOut, memory,
       InMemory, OnDisk
  <2> QED BY <2>1, <2>2
<1> QED BY <1>5, <1>6, <1>7

LEMMA WriteLineKeeps ==
  ASSUME LogInv, NEW t \in Flusher, NEW e \in Entry, WriteLine(t, e)
  PROVE  /\ LogInv' /\ UNCHANGED <<InMemory, breaks>> /\ e \in InMemory
         /\ OnDisk' = OnDisk \/ OnDisk' = OnDisk \cup {e}
<1>1. TypeOK /\ e \in batch[t]
  BY DEF LogInv, TypeOK, WriteLine
<1>2. InMemory' = InMemory /\ e \in InMemory
  BY <1>1 DEF WriteLine, InMemory
<1>3. /\ left' \in [Flusher -> SUBSET Entry] /\ batch' = batch
      /\ \A u \in Flusher : left'[u] = IF u = t THEN left[u] \ {e} ELSE left[u]
  BY <1>1 DEF TypeOK, WriteLine
<1>4. lines' \in [Entry -> Nat] /\ shown' \in [Entry -> Nat]
  BY <1>1 DEF TypeOK, WriteLine
<1>5. TypeOK'
  BY <1>1, <1>3, <1>4 DEF TypeOK, WriteLine, book
<1>6. CASE torn
  <2>1. OnDisk' = OnDisk /\ breaks # 0
    BY <1>6 DEF WriteLine, OnDisk, LogInv, WrittenOut
  <2>2. Known' /\ HandsFree' /\ WrittenOut'
    BY <1>2, <2>1 DEF LogInv, Known, HandsFree, WrittenOut, WriteLine, book
  <2> QED BY <1>2, <1>5, <2>1, <2>2 DEF LogInv, WriteLine
<1>7. CASE ~torn
  <2>1. lines' = [lines EXCEPT ![e] = @ + 1]
    BY <1>7 DEF WriteLine
  <2>2. OnDisk' = OnDisk \cup {e}
    BY <1>1, <2>1 DEF OnDisk, TypeOK
  <2>3. Known' /\ HandsFree'
    BY <1>2, <2>2 DEF LogInv, Known, HandsFree, WriteLine, book
  <2>4. WrittenOut'
    BY <1>3, <2>2 DEF LogInv, WrittenOut, WriteLine
  <2> QED BY <1>2, <1>5, <2>2, <2>3, <2>4 DEF LogInv, WriteLine
<1> QED BY <1>6, <1>7

(* A flusher lets go of its batch: nothing but lines in the file leaves    *)
(* the memory unless a write was interrupted.                              *)
LEMMA WrittenKeeps ==
  ASSUME LogInv, NEW t \in Flusher, Written(t)
  PROVE  /\ LogInv' /\ UNCHANGED <<OnDisk, breaks>> /\ InMemory' \subseteq InMemory
         /\ breaks = 0 => InMemory \subseteq InMemory' \cup OnDisk
<1>1. /\ TypeOK /\ left[t] = {} /\ left' = left /\ buffer' = buffer
      /\ batch' \in [Flusher -> SUBSET Entry]
      /\ \A u \in Flusher : batch'[u] = IF u = t THEN {} ELSE batch[u]
  BY DEF LogInv, TypeOK, Written, WroteAll
<1>2. OnDisk' = OnDisk /\ breaks' = breaks /\ UNCHANGED <<status, session, filled, logged, lines, shown, torn>>
  BY DEF Written, file, book, OnDisk
<1>3. InMemory' \subseteq InMemory /\ InMemory \subseteq InMemory' \cup batch[t]
  BY <1>1 DEF InMemory
<1>4. breaks = 0 => batch[t] \subseteq OnDisk
  BY <1>1 DEF LogInv, WrittenOut
<1>5. TypeOK'
  BY <1>1, <1>2 DEF TypeOK
<1>6. Known' /\ HandsFree' /\ WrittenOut'
  BY <1>1, <1>2, <1>3 DEF LogInv, Known, HandsFree, WrittenOut
<1> QED BY <1>2, <1>3, <1>4, <1>5, <1>6 DEF LogInv

LEMMA FailKeeps ==
  ASSUME LogInv, NEW t \in Flusher, WriteFails(t)
  PROVE  LogInv' /\ UNCHANGED <<InMemory, OnDisk>> /\ breaks' > 0
<1>1. /\ TypeOK /\ breaks' = breaks + 1 /\ breaks \in Nat /\ torn' \in BOOLEAN
      /\ buffer' = buffer \cup batch[t]
      /\ batch' \in [Flusher -> SUBSET Entry] /\ left' \in [Flusher -> SUBSET Entry]
      /\ \A u \in Flusher : /\ batch'[u] = IF u = t THEN {} ELSE batch[u]
                            /\ left'[u] = IF u = t THEN {} ELSE left[u]
  BY DEF LogInv, TypeOK, WriteFails, Readded
<1>2. OnDisk' = OnDisk /\ UNCHANGED <<status, session, filled, logged, lines, shown>>
  BY DEF WriteFails, book, OnDisk
<1>3. InMemory' = InMemory
  BY <1>1 DEF InMemory
<1>4. TypeOK'
  BY <1>1, <1>2 DEF TypeOK
<1>5. Known' /\ HandsFree' /\ WrittenOut' /\ breaks' > 0
  BY <1>1, <1>2, <1>3 DEF LogInv, Known, HandsFree, WrittenOut
<1> QED BY <1>2, <1>3, <1>4, <1>5 DEF LogInv

LEMMA StatusKeeps ==
  ASSUME LogInv, StopAll \/ Exit
  PROVE  LogInv' /\ UNCHANGED <<InMemory, OnDisk, breaks>>
  BY DEF LogInv, TypeOK, Known, HandsFree, WrittenOut, InMemory, OnDisk, StopAll, Exit,
     memory, book, file, Flushing

LEMMA CrashKeeps ==
  ASSUME LogInv, Crash
  PROVE  LogInv' /\ InMemory' = {} /\ OnDisk' = OnDisk /\ breaks' > 0
<1>1. breaks' > 0 /\ OnDisk' = OnDisk /\ InMemory' = {}
  BY DEF LogInv, TypeOK, Crash, OnDisk, InMemory, Idle
<1>2. torn' \in BOOLEAN
  BY DEF LogInv, TypeOK, Crash
<1> QED BY <1>1, <1>2 DEF LogInv, TypeOK, Known, HandsFree, WrittenOut, Crash, Idle, OnDisk, InMemory

LEMMA StutterKeeps ==
  ASSUME LogInv, UNCHANGED vars
  PROVE  LogInv' /\ UNCHANGED <<InMemory, OnDisk, breaks>>
  BY DEF LogInv, TypeOK, Known, HandsFree, WrittenOut, InMemory, OnDisk, vars, memory, book, file

LEMMA NextKeeps == LogInv /\ [Next]_vars => LogInv'
  BY LogKeeps, FillKeeps, FlushKeeps, WriteLineKeeps, WrittenKeeps, FailKeeps, StatusKeeps,
     CrashKeeps, StutterKeeps DEF Next, Write

LEMMA Inductive == Spec => []LogInv
<1>1. Init => LogInv
  BY InitHolds
<1>2. LogInv /\ [Next]_vars => LogInv'
  BY NextKeeps
<1> QED BY <1>1, <1>2, PTL DEF Spec

(* Every variable of the log keeps its type, and a flusher never has more  *)
(* to write than the batch it would put back.                              *)
THEOREM LogTypes == Spec => []TypeOK
<1>1. LogInv => TypeOK
  BY DEF LogInv
<1> QED BY <1>1, Inductive, PTL

-----------------------------------------------------------------------------
LEMMA InitMaps == Init => Promise!Init
  BY DEF Init, Promise!Init, InMemory, OnDisk, Idle

(* Each step of the log is a step of AppendLog or none.                    *)
LEMMA StepMaps == LogInv /\ [Next]_vars => [Promise!Next]_(Promise!vars)
<1> SUFFICES ASSUME LogInv, [Next]_vars PROVE [Promise!Next]_(Promise!vars)
  OBVIOUS
<1> USE DEF Promise!Next, Promise!vars
<1>0. breaks \in Nat
  BY DEF LogInv, TypeOK
<1>1. ASSUME NEW e \in Entry, Log(e) PROVE [Promise!Next]_(Promise!vars)
  <2>1. InMemory' = InMemory \cup {e} /\ OnDisk' = OnDisk /\ breaks' = breaks
    BY <1>1, LogKeeps
  <2>2. e \notin InMemory \cup OnDisk
    BY <1>1 DEF LogInv, Known, Log
  <2>3. Promise!Accept(e)
    BY <2>1, <2>2 DEF Promise!Accept
  <2> QED BY <2>3
<1>2. ASSUME UNCHANGED <<InMemory, OnDisk, breaks>> PROVE [Promise!Next]_(Promise!vars)
  BY <1>2
<1>3. ASSUME NEW t \in Flusher, NEW e \in Entry, WriteLine(t, e)
      PROVE  [Promise!Next]_(Promise!vars)
  <2>1. /\ UNCHANGED <<InMemory, breaks>> /\ e \in InMemory
        /\ OnDisk' = OnDisk \/ OnDisk' = OnDisk \cup {e}
    BY <1>3, WriteLineKeeps
  <2>2. CASE OnDisk' = OnDisk
    BY <2>1, <2>2, <1>2
  <2>3. CASE OnDisk' = OnDisk \cup {e} /\ e \notin OnDisk
    <3>1. Promise!Commit(e)
      BY <2>1, <2>3 DEF Promise!Commit
    <3> QED BY <3>1
  <2> QED BY <2>1, <2>2, <2>3
<1>4. ASSUME NEW t \in Flusher, Written(t) PROVE [Promise!Next]_(Promise!vars)
  <2>1. /\ UNCHANGED <<OnDisk, breaks>> /\ InMemory' \subseteq InMemory
        /\ breaks = 0 => InMemory \subseteq InMemory' \cup OnDisk
    BY <1>4, WrittenKeeps
  <2>2. CASE breaks = 0
    BY <2>1, <2>2
  <2>3. CASE breaks # 0
    <3> DEFINE lost == (InMemory \ OnDisk) \ (InMemory' \ OnDisk')
    <3>1. lost \in SUBSET (InMemory \ OnDisk) /\ InMemory' \ OnDisk' = (InMemory \ OnDisk) \ lost
      BY <2>1
    <3>2. breaks > 0
      BY <1>0, <2>3
    <3>3. Promise!Lose
      BY <2>1, <3>1, <3>2 DEF Promise!Lose
    <3> QED BY <3>3
  <2> QED BY <2>2, <2>3
<1>5. ASSUME NEW t \in Flusher, WriteFails(t) PROVE [Promise!Next]_(Promise!vars)
  <2>1. UNCHANGED <<InMemory, OnDisk>> /\ breaks' > 0
    BY <1>5, FailKeeps
  <2>2. Promise!Interrupt
    BY <2>1 DEF Promise!Interrupt
  <2> QED BY <2>2
<1>6. CASE Crash
  <2>1. InMemory' = {} /\ OnDisk' = OnDisk /\ breaks' > 0
    BY <1>6, CrashKeeps
  <2>2. Promise!Die
    BY <2>1 DEF Promise!Die
  <2> QED BY <2>2
<1>7. CASE FlushHourly \/ FlushAtShutdown \/ Close \/ StopAll \/ Exit \/ UNCHANGED vars
  BY <1>2, <1>7, FlushKeeps, StatusKeeps, StutterKeeps
<1>8. ASSUME NEW e \in Entry, OnFill(e) PROVE [Promise!Next]_(Promise!vars)
  BY <1>2, <1>8, FillKeeps
<1> QED BY <1>1, <1>3, <1>4, <1>5, <1>6, <1>7, <1>8 DEF Next, Write

(* The log implements AppendLog: no entry disappears before it is in the   *)
(* file unless the process crashed or a write was interrupted, for every   *)
(* set of decisions, threshold and interleaving of the three flushers.     *)
THEOREM LogKeepsPromise == Spec => KeepsPromise
<1>1. Init => Promise!Init
  BY InitMaps
<1>2. LogInv /\ [Next]_vars => [Promise!Next]_(Promise!vars)
  BY StepMaps
<1> QED BY <1>1, <1>2, Inductive, PTL DEF Spec, KeepsPromise, Promise!Spec
-----------------------------------------------------------------------------
(* The lines of an entry.  An entry is with one holder at a time (Unique). *)
(* While it has a line to come it has no more lines than writes were       *)
(* interrupted, and afterwards one more (Counted); what never got a line   *)
(* was glued to a torn one, and each interruption tears one line (Lost).   *)

ToWrite == buffer \cup left[Hourly] \cup left[Shutdown] \cup left[Loop]
Spoiled == session \ (ToWrite \cup OnDisk)

Unique ==
  /\ \A t \in Flusher : buffer \cap batch[t] = {}
  /\ \A t, u \in Flusher : t # u => batch[t] \cap batch[u] = {}

Counted == \A e \in Entry :
  /\ lines[e] <= breaks + 1 /\ (e \in ToWrite => lines[e] <= breaks)
  /\ shown[e] <= lines[e] /\ (e \notin filled => shown[e] = 0)
  /\ breaks = 0 /\ e \in logged => e \in ToWrite \/ lines[e] = 1

Lost == IsFiniteSet(Spoiled) /\ Cardinality(Spoiled) + (IF torn THEN 1 ELSE 0) <= breaks

Emptied ==
  breaks = 0 => /\ status \in {"closing", "closed"} => buffer = {}
                /\ status = "closed" => \A t \in Flusher : batch[t] = {}

LineInv == Unique /\ Counted /\ Lost /\ Emptied

LEMMA InitLines == Init => LineInv
<1> SUFFICES ASSUME Init PROVE LineInv
  OBVIOUS
<1>1. Spoiled = {}
  BY DEF Init, Spoiled
<1>2. IsFiniteSet({}) /\ Cardinality({}) = 0
  BY FS_EmptySet
<1> QED BY <1>1, <1>2 DEF Init, LineInv, Unique, Counted, Lost, Emptied, Idle

(* A smaller set of spoiled entries is still counted.                      *)
LEMMA LostLess ==
  ASSUME LogInv, Lost, Spoiled' \subseteq Spoiled, breaks' = breaks, torn' = torn
  PROVE  Lost'
<1>1. /\ IsFiniteSet(Spoiled') /\ Cardinality(Spoiled') <= Cardinality(Spoiled)
      /\ Cardinality(Spoiled) \in Nat /\ Cardinality(Spoiled') \in Nat
  BY FS_Subset, FS_CardinalityType DEF Lost
<1> QED BY <1>1 DEF Lost, LogInv, TypeOK

(* What moves entries between the buffer and the flushers writes nothing.  *)
LEMMA MoveCounts ==
  ASSUME LogInv, LineInv, ToWrite' = ToWrite, filled \subseteq filled',
         UNCHANGED <<lines, shown, session, logged, breaks, torn>>
  PROVE  Counted' /\ Lost'
<1>1. Spoiled' = Spoiled
  BY DEF Spoiled, OnDisk
<1>2. Lost'
  BY <1>1, LostLess DEF LineInv
<1>3. Counted'
  BY DEF LineInv, Counted
<1> QED BY <1>2, <1>3

LEMMA LogLines ==
  ASSUME LogInv, LineInv, NEW e \in Entry, Log(e)
  PROVE  LineInv'
<1> DEFINE S == buffer \cup {e}
<1>1. /\ TypeOK /\ batch[Loop] = {} /\ left[Loop] = {} /\ breaks \in Nat
      /\ e \notin InMemory /\ lines[e] = 0 /\ status = "up"
  BY DEF LogInv, TypeOK, Known, Log, Flushing, OnDisk
<1>2. /\ UNCHANGED <<status, lines, shown, torn, filled, breaks>>
      /\ logged' = logged \cup {e} /\ session' = session \cup {e}
  BY DEF Log, file
<1>3. \/ /\ buffer' = {} /\ batch' = [batch EXCEPT ![Loop] = S]
         /\ left' = [left EXCEPT ![Loop] = S]
      \/ buffer' = S /\ UNCHANGED <<batch, left>>
  BY DEF Log, Take
<1>4. ToWrite' = ToWrite \cup {e}
  BY <1>1, <1>3 DEF ToWrite, TypeOK
<1>5. Unique'
  BY <1>1, <1>3 DEF LineInv, Unique, TypeOK, InMemory
<1>6. Spoiled' = Spoiled
  <2>1. OnDisk' = OnDisk /\ e \notin session
    BY <1>2 DEF OnDisk, Log, LogInv, TypeOK
  <2> QED BY <2>1, <1>2, <1>4 DEF Spoiled
<1>7. Lost'
  BY <1>2, <1>6, LostLess DEF LineInv
<1>8. Counted'
  BY <1>1, <1>2, <1>4 DEF LineInv, Counted
<1>9. Emptied'
  BY <1>1, <1>2 DEF Emptied
<1> QED BY <1>5, <1>7, <1>8, <1>9 DEF LineInv

LEMMA FlushLines ==
  ASSUME LogInv, LineInv, FlushHourly \/ FlushAtShutdown \/ Close
  PROVE  LineInv'
<1>1. UNCHANGED <<lines, shown, session, filled, logged, breaks, torn>> /\ TypeOK
  BY DEF FlushHourly, FlushAtShutdown, Close, book, file, LogInv
<1>2. PICK t \in Flusher : batch[t] = {} /\ (Take(t, buffer) \/ (buffer = {} /\ UNCHANGED memory))
  BY DEF FlushHourly, FlushAtShutdown, Close, Flushing, LogInv, HandsFree
<1>3. left[t] = {}
  BY <1>2, <1>1 DEF TypeOK
<1>4. /\ buffer' = {} /\ ToWrite' = ToWrite
      /\ batch' = [batch EXCEPT ![t] = buffer]
  BY <1>1, <1>2, <1>3 DEF Take, memory, ToWrite, TypeOK
<1>5. Unique'
  BY <1>1, <1>4 DEF LineInv, Unique, TypeOK
<1>6. status' # "closed"
  BY DEF FlushHourly, FlushAtShutdown, Close
<1> QED BY <1>1, <1>4, <1>5, <1>6, MoveCounts DEF LineInv, Emptied

LEMMA WriteLineLines ==
  ASSUME LogInv, LineInv, NEW t \in Flusher, NEW e \in Entry, WriteLine(t, e)
  PROVE  LineInv'
<1>1. /\ TypeOK /\ breaks \in Nat /\ e \in left[t] /\ e \in batch[t]
      /\ buffer' = buffer /\ batch' = batch /\ torn' = FALSE
      /\ UNCHANGED <<status, session, filled, logged, breaks>>
      /\ left' = [left EXCEPT ![t] = left[t] \ {e}]
      /\ lines' = IF torn THEN lines ELSE [lines EXCEPT ![e] = lines[e] + 1]
      /\ shown' = IF torn \/ e \notin filled THEN shown ELSE [shown EXCEPT ![e] = shown[e] + 1]
  BY DEF WriteLine, book, LogInv, TypeOK
<1>2. ToWrite' = ToWrite \ {e} /\ e \in ToWrite
  BY <1>1 DEF ToWrite, LineInv, Unique, TypeOK
<1>3. Unique' /\ Emptied'
  BY <1>1 DEF LineInv, Unique, Emptied
<1>4. Counted'
  <2> SUFFICES ASSUME NEW d \in Entry
               PROVE  /\ lines'[d] <= breaks + 1 /\ (d \in ToWrite' => lines'[d] <= breaks)
                      /\ shown'[d] <= lines'[d] /\ (d \notin filled => shown'[d] = 0)
                      /\ breaks = 0 /\ d \in logged => d \in ToWrite' \/ lines'[d] = 1
    BY <1>1 DEF Counted
  <2>1. /\ lines[d] \in Nat /\ shown[d] \in Nat
        /\ lines'[d] = IF d = e /\ ~torn THEN lines[d] + 1 ELSE lines[d]
        /\ shown'[d] = IF d = e /\ ~torn /\ e \in filled THEN shown[d] + 1 ELSE shown[d]
    BY <1>1 DEF TypeOK
  <2>2. breaks = 0 => ~torn
    BY DEF LogInv, WrittenOut
  <2> QED BY <1>1, <1>2, <2>1, <2>2 DEF LineInv, Counted
<1>5. Lost'
  <2>1. CASE torn
    <3>1. OnDisk' = OnDisk /\ Spoiled' \subseteq Spoiled \cup {e}
      BY <1>1, <1>2, <2>1 DEF OnDisk, Spoiled
    <3>2. /\ IsFiniteSet(Spoiled \cup {e}) /\ Cardinality(Spoiled) \in Nat
          /\ Cardinality(Spoiled \cup {e}) <= Cardinality(Spoiled) + 1
      <4>1. IsFiniteSet(Spoiled) /\ Cardinality(Spoiled) \in Nat
        BY FS_CardinalityType DEF LineInv, Lost
      <4> QED BY <4>1, FS_AddElement
    <3>3. IsFiniteSet(Spoiled') /\ Cardinality(Spoiled') <= Cardinality(Spoiled \cup {e})
      BY <3>1, <3>2, FS_Subset
    <3>4. Cardinality(Spoiled') \in Nat /\ Cardinality(Spoiled \cup {e}) \in Nat
      BY <3>2, <3>3, FS_CardinalityType
    <3>5. Cardinality(Spoiled) + 1 <= breaks
      BY <2>1 DEF LineInv, Lost
    <3> QED BY <1>1, <3>2, <3>3, <3>4, <3>5 DEF Lost
  <2>2. CASE ~torn
    <3>1. OnDisk' = OnDisk \cup {e}
      <4>1. \A d \in Entry : lines'[d] = IF d = e THEN lines[d] + 1 ELSE lines[d]
        BY <1>1, <2>2 DEF TypeOK
      <4>2. lines[e] \in Nat
        BY <1>1 DEF TypeOK
      <4> QED BY <4>1, <4>2 DEF OnDisk
    <3>2. Spoiled' \subseteq Spoiled
      BY <1>1, <1>2, <3>1 DEF Spoiled
    <3>3. torn' = torn
      BY <1>1, <2>2 DEF TypeOK
    <3> QED BY <1>1, <3>2, <3>3, LostLess DEF LineInv
  <2> QED BY <2>1, <2>2
<1> QED BY <1>3, <1>4, <1>5 DEF LineInv

LEMMA WrittenLines ==
  ASSUME LogInv, LineInv, NEW t \in Flusher, Written(t)
  PROVE  LineInv'
<1>1. /\ TypeOK /\ UNCHANGED <<status, buffer, left, lines, shown, session, filled, logged, breaks, torn>>
      /\ batch' = [batch EXCEPT ![t] = {}]
  BY DEF Written, book, file, LogInv
<1>2. ToWrite' = ToWrite
  BY <1>1 DEF ToWrite
<1>3. Unique'
  BY <1>1 DEF LineInv, Unique, TypeOK
<1>4. Emptied'
  BY <1>1 DEF LineInv, Emptied, TypeOK
<1> QED BY <1>1, <1>2, <1>3, <1>4, MoveCounts DEF LineInv

LEMMA FailLines ==
  ASSUME LogInv, LineInv, NEW t \in Flusher, WriteFails(t)
  PROVE  LineInv'
<1>1. /\ TypeOK /\ breaks \in Nat /\ breaks' = breaks + 1 /\ torn' \in BOOLEAN
      /\ UNCHANGED <<lines, shown, session, filled, logged>>
      /\ buffer' = buffer \cup batch[t] /\ batch' = [batch EXCEPT ![t] = {}]
      /\ left' = [left EXCEPT ![t] = {}]
  BY DEF WriteFails, Readded, book, LogInv, TypeOK
<1>2. ToWrite \subseteq ToWrite'
  BY <1>1 DEF ToWrite, TypeOK
<1>3. Unique'
  BY <1>1 DEF LineInv, Unique, TypeOK
<1>4. Counted'
  <2>1. \A e \in Entry : lines[e] \in Nat /\ lines[e] <= breaks + 1
    BY <1>1 DEF TypeOK, LineInv, Counted
  <2> QED BY <1>1, <2>1 DEF LineInv, Counted
<1>5. Lost'
  <2>1. Spoiled' \subseteq Spoiled
    BY <1>1, <1>2 DEF Spoiled, OnDisk
  <2>2. /\ IsFiniteSet(Spoiled') /\ Cardinality(Spoiled') <= Cardinality(Spoiled)
        /\ Cardinality(Spoiled) \in Nat /\ Cardinality(Spoiled') \in Nat
    BY <2>1, FS_Subset, FS_CardinalityType DEF LineInv, Lost
  <2>3. Cardinality(Spoiled) <= breaks
    BY <1>1, <2>2 DEF LineInv, Lost
  <2> QED BY <1>1, <2>2, <2>3 DEF Lost
<1>6. Emptied'
  BY <1>1 DEF Emptied
<1> QED BY <1>3, <1>4, <1>5, <1>6 DEF LineInv

LEMMA CrashLines ==
  ASSUME LogInv, LineInv, Crash
  PROVE  LineInv'
<1>1. /\ TypeOK /\ breaks \in Nat /\ breaks' = breaks + 1 /\ torn' \in BOOLEAN
      /\ UNCHANGED <<lines, shown, filled, logged>>
      /\ session' = {} /\ buffer' = {} /\ batch' = Idle /\ left' = Idle
  BY DEF Crash, LogInv, TypeOK
<1>2. Spoiled' = {} /\ ToWrite' = {}
  BY <1>1 DEF Spoiled, ToWrite, Idle
<1>3. Lost'
  BY <1>1, <1>2, FS_EmptySet DEF Lost
<1>4. Counted'
  <2>1. \A e \in Entry : lines[e] \in Nat /\ lines[e] <= breaks + 1
    BY <1>1 DEF TypeOK, LineInv, Counted
  <2> QED BY <1>1, <1>2, <2>1 DEF LineInv, Counted
<1> QED BY <1>1, <1>3, <1>4 DEF LineInv, Unique, Emptied, Idle

LEMMA StatusLines ==
  ASSUME LogInv, LineInv, StopAll \/ Exit \/ UNCHANGED vars \/ \E e \in Entry : OnFill(e)
  PROVE  LineInv'
<1>1. /\ UNCHANGED <<buffer, batch, left, lines, shown, session, logged, breaks, torn>>
      /\ filled \subseteq filled'
  BY DEF StopAll, Exit, OnFill, vars, memory, book, file
<1>2. ToWrite' = ToWrite /\ Unique'
  BY <1>1 DEF ToWrite, LineInv, Unique
<1>3. Emptied'
  BY <1>1 DEF LineInv, Emptied, StopAll, Exit, OnFill, vars, Flushing
<1> QED BY <1>1, <1>2, <1>3, MoveCounts DEF LineInv

LEMMA Lines == Spec => [](LogInv /\ LineInv)
<1>1. Init => LineInv
  BY InitLines
<1>2. LogInv /\ LineInv /\ [Next]_vars => LineInv'
  BY LogLines, FlushLines, WriteLineLines, WrittenLines, FailLines, CrashLines, StatusLines
     DEF Next, Write
<1> QED BY <1>1, <1>2, Inductive, PTL DEF Spec

(* Of what the process has logged, no more is gone than writes were        *)
(* interrupted: an interruption leaves half a line, and only the one line  *)
(* glued to it cannot be read.                                             *)
THEOREM SpoiledFew == Spec => []SpoiledBounded
<1>1. LogInv /\ LineInv => SpoiledBounded
  <2> SUFFICES ASSUME LogInv, LineInv PROVE SpoiledBounded
    OBVIOUS
  <2> DEFINE gone == session \ (InMemory \cup OnDisk)
  <2>1. gone \subseteq Spoiled
    BY DEF Spoiled, ToWrite, InMemory, LogInv, TypeOK
  <2>2. /\ IsFiniteSet(gone) /\ Cardinality(gone) <= Cardinality(Spoiled)
        /\ Cardinality(Spoiled) \in Nat /\ Cardinality(gone) \in Nat
    BY <2>1, FS_Subset, FS_CardinalityType DEF LineInv, Lost
  <2>3. Cardinality(Spoiled) <= breaks /\ breaks \in Nat
    BY <2>2 DEF LineInv, Lost, LogInv, TypeOK
  <2> QED BY <2>2, <2>3 DEF SpoiledBounded
<1> QED BY <1>1, Lines, PTL

(* A recovery books no order that was not filled, and a filled one no more *)
(* often than once and once for each interrupted write.                    *)
THEOREM ReplaysFew == Spec => []ReplayBounded
<1>1. LogInv /\ LineInv => ReplayBounded
  <2> SUFFICES ASSUME LogInv, LineInv, NEW e \in Entry
               PROVE  shown[e] <= IF e \in filled THEN 1 + breaks ELSE 0
    BY DEF ReplayBounded, Replayed
  <2>1. shown[e] \in Nat /\ lines[e] \in Nat /\ breaks \in Nat
    BY DEF LogInv, TypeOK
  <2> QED BY <2>1 DEF LineInv, Counted
<1> QED BY <1>1, Lines, PTL

(* After a shutdown without a failed write every decision has one line in  *)
(* the file, whichever of the three flushers wrote it.                     *)
THEOREM CleanStops == Spec => []CleanStopComplete
<1>1. LogInv /\ LineInv => CleanStopComplete
  <2> SUFFICES ASSUME LogInv, LineInv, status = "closed", breaks = 0, NEW e \in logged
               PROVE  lines[e] = 1
    BY DEF CleanStopComplete
  <2>1. ToWrite = {}
    BY DEF LineInv, Emptied, ToWrite, LogInv, TypeOK
  <2> QED BY <2>1 DEF LineInv, Counted, LogInv, TypeOK
<1> QED BY <1>1, Lines, PTL
=============================================================================
