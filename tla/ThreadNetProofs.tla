--------------------------- MODULE ThreadNetProofs ---------------------------
(***************************************************************************)
(* Safety of the Thread driver and its controller (ThreadNet), for any     *)
(* networks, callers and bounds.  The properties are about three pieces of *)
(* state that no step sees together: who holds the mutex, which dataset    *)
(* the stack has, and what the Matter stack supplied.  IInv ties them.     *)
(***************************************************************************)
EXTENDS ThreadNet, TLAPS

\* Exactly the calls that poll hold the mutex, and a polling connect call
\* holds it on its own dataset (thread.rs:150, 261-287).
MutexHeld ==
    /\ \A c \in Callers : pc[c] = "poll"
          => lock = c /\ enabled /\ dataset = target[c] /\ target[c] \in Networks
    /\ lock \in Callers => pc[lock] = "poll"
    /\ scanPc = "poll" <=> lock = Scanner

\* A call that waits for the mutex knows its network.
Called == \A c \in Callers : pc[c] = "enter" => target[c] \in Networks

\* Without a driver the stack is at rest and nobody calls
\* (wireless/thread.rs:193-208, 295-303).
AtRest ==
    /\ driver = "up" <=> ip6
    /\ driver = "off"
          => /\ \A c \in Callers : pc[c] = "idle"
             /\ lock = NoOne /\ ~enabled /\ supplied = {}

\* The radio is attached to nothing but the dataset, and the dataset is one
\* the Matter stack supplied.
RoleTracked ==
    /\ role # NoNetwork => role = dataset
    /\ ip6 => dataset \in supplied \cup {NoNetwork}

IInv == TypeOK /\ MutexHeld /\ Called /\ AtRest /\ RoleTracked

\* The driver starts with a purged dataset, so nothing is supplied yet.
LEMMA StartStep == ASSUME IInv, Start PROVE IInv'
<1> USE ThreadAssumption DEF IInv, TypeOK, Start, PurgedDataset, stackVars,
                             callVars, watchVars
<1>1. TypeStack' BY DEF TypeStack, MaybeNetworks
<1>2. TypeCalls' BY DEF TypeCalls, MaybeNetworks
<1>3. TypeLoops' BY DEF TypeLoops, TypeStack, MaybeNetworks
<1>4. TypeBounds' BY DEF TypeBounds
<1>5. MutexHeld' BY DEF MutexHeld, Called, AtRest, TypeStack, TypeCalls
<1>6. Called' BY DEF Called, AtRest, TypeCalls
<1>7. AtRest' BY DEF AtRest, MutexHeld, TypeStack, TypeCalls
<1>8. RoleTracked' BY DEF RoleTracked, AtRest, MutexHeld, TypeStack, TypeCalls
<1>9. QED BY <1>1, <1>2, <1>3, <1>4, <1>5, <1>6, <1>7, <1>8

\* The futures go first, then the stack is put to rest.
LEMMA StopStep == ASSUME IInv, Stop PROVE IInv'
<1> USE ThreadAssumption DEF IInv, TypeOK, Stop, NoState
<1>1. TypeStack' BY DEF TypeStack, MaybeNetworks
<1>2. TypeCalls' BY DEF TypeCalls, MaybeNetworks
<1>3. TypeLoops' BY DEF TypeLoops, TypeStack, MaybeNetworks, Watchers
<1>4. TypeBounds' BY DEF TypeBounds
<1>5. MutexHeld' BY DEF MutexHeld, Called, AtRest, TypeStack, TypeCalls
<1>6. Called' BY DEF Called, AtRest, TypeCalls
<1>7. AtRest' BY DEF AtRest, MutexHeld, TypeStack, TypeCalls
<1>8. RoleTracked' BY DEF RoleTracked, AtRest, MutexHeld, TypeStack, TypeCalls
<1>9. QED BY <1>1, <1>2, <1>3, <1>4, <1>5, <1>6, <1>7, <1>8

\* OpenThread attaches to the dataset only.
LEMMA AttachStep == ASSUME IInv, Attach PROVE IInv'
<1> USE ThreadAssumption DEF IInv, TypeOK, Attach, Attached, Change, callVars
<1>1. TypeStack' BY DEF TypeStack, MaybeNetworks
<1>2. TypeCalls' BY DEF TypeCalls, MaybeNetworks
<1>3. TypeLoops' BY DEF TypeLoops, TypeStack, MaybeNetworks
<1>4. TypeBounds' BY DEF TypeBounds
<1>5. MutexHeld' BY DEF MutexHeld, Called, AtRest, TypeStack, TypeCalls
<1>6. Called' BY DEF Called, AtRest, TypeCalls
<1>7. AtRest' BY DEF AtRest, MutexHeld, TypeStack, TypeCalls
<1>8. RoleTracked' BY DEF RoleTracked, AtRest, MutexHeld, TypeStack, TypeCalls
<1>9. QED BY <1>1, <1>2, <1>3, <1>4, <1>5, <1>6, <1>7, <1>8

LEMMA DetachStep == ASSUME IInv, Detach PROVE IInv'
<1> USE ThreadAssumption DEF IInv, TypeOK, Detach, Attached, Change, callVars
<1>1. TypeStack' BY DEF TypeStack, MaybeNetworks
<1>2. TypeCalls' BY DEF TypeCalls, MaybeNetworks
<1>3. TypeLoops' BY DEF TypeLoops, TypeStack, MaybeNetworks
<1>4. TypeBounds' BY DEF TypeBounds
<1>5. MutexHeld' BY DEF MutexHeld, Called, AtRest, TypeStack, TypeCalls
<1>6. Called' BY DEF Called, AtRest, TypeCalls
<1>7. AtRest' BY DEF AtRest, MutexHeld, TypeStack, TypeCalls
<1>8. RoleTracked' BY DEF RoleTracked, AtRest, MutexHeld, TypeStack, TypeCalls
<1>9. QED BY <1>1, <1>2, <1>3, <1>4, <1>5, <1>6, <1>7, <1>8

LEMMA AddrChangeStep == ASSUME IInv, AddrChange PROVE IInv'
<1> USE ThreadAssumption DEF IInv, TypeOK, AddrChange, IpEvent, Change,
                             callVars
<1>1. TypeStack' BY DEF TypeStack, MaybeNetworks
<1>2. TypeCalls' BY DEF TypeCalls, MaybeNetworks
<1>3. TypeLoops' BY DEF TypeLoops, TypeStack, MaybeNetworks, Watchers
<1>4. TypeBounds' BY DEF TypeBounds
<1>5. MutexHeld' BY DEF MutexHeld, Called, AtRest, TypeStack, TypeCalls
<1>6. Called' BY DEF Called, AtRest, TypeCalls
<1>7. AtRest' BY DEF AtRest, MutexHeld, TypeStack, TypeCalls
<1>8. RoleTracked' BY DEF RoleTracked, AtRest, MutexHeld, TypeStack, TypeCalls
<1>9. QED BY <1>1, <1>2, <1>3, <1>4, <1>5, <1>6, <1>7, <1>8

LEMMA ScanDoneStep == ASSUME IInv, ScanDone PROVE IInv'
<1> USE ThreadAssumption DEF IInv, TypeOK, ScanDone, callVars, watchVars
<1>1. TypeStack' BY DEF TypeStack, MaybeNetworks
<1>2. TypeCalls' BY DEF TypeCalls, MaybeNetworks
<1>3. TypeLoops' BY DEF TypeLoops, TypeStack, MaybeNetworks
<1>4. TypeBounds' BY DEF TypeBounds
<1>5. MutexHeld' BY DEF MutexHeld, Called, AtRest, TypeStack, TypeCalls
<1>6. Called' BY DEF Called, AtRest, TypeCalls
<1>7. AtRest' BY DEF AtRest, MutexHeld, TypeStack, TypeCalls
<1>8. RoleTracked' BY DEF RoleTracked, AtRest, MutexHeld, TypeStack, TypeCalls
<1>9. QED BY <1>1, <1>2, <1>3, <1>4, <1>5, <1>6, <1>7, <1>8

LEMMA CallStep == ASSUME IInv, NEW c \in Callers, Call(c) PROVE IInv'
<1> USE ThreadAssumption DEF IInv, TypeOK, Call, stackVars, watchVars
<1>1. TypeStack' BY DEF TypeStack, MaybeNetworks
<1>2. TypeCalls' BY DEF TypeCalls, MaybeNetworks
<1>3. TypeLoops' BY DEF TypeLoops, TypeStack, MaybeNetworks
<1>4. TypeBounds' BY DEF TypeBounds
<1>5. MutexHeld' BY DEF MutexHeld, Called, AtRest, TypeStack, TypeCalls
<1>6. Called' BY DEF Called, AtRest, TypeCalls
<1>7. AtRest' BY DEF AtRest, MutexHeld, TypeStack, TypeCalls
<1>8. RoleTracked' BY DEF RoleTracked, AtRest, MutexHeld, TypeStack, TypeCalls
<1>9. QED BY <1>1, <1>2, <1>3, <1>4, <1>5, <1>6, <1>7, <1>8

\* The dataset changes with the stack stopped and the mutex free, so no
\* other call polls; this one holds the mutex from here on.
LEMMA BeginStep == ASSUME IInv, NEW c \in Callers, Begin(c) PROVE IInv'
<1> USE ThreadAssumption DEF IInv, TypeOK, Begin, RoleOnceStopped, PollHolder,
                             Return, watchVars
<1>0. target[c] \in Networks BY DEF Called
<1>1. TypeStack'
  <2>1. dataset' \in MaybeNetworks BY <1>0 DEF TypeStack, MaybeNetworks
  <2>2. enabled' \in BOOLEAN /\ role' = NoNetwork OBVIOUS
  <2>3. QED BY <2>1, <2>2 DEF TypeStack, MaybeNetworks
<1>2. TypeCalls'
  <2>1. lock' \in Callers \cup {NoOne, Scanner} OBVIOUS
  <2>2. pc' \in [Callers -> {"idle", "enter", "poll"}] BY DEF TypeCalls
  <2>3. target' \in [Callers -> MaybeNetworks] /\ late' \subseteq Callers
    BY DEF TypeCalls, MaybeNetworks
  <2>4. outcome' \in [Callers -> {"none", "ok", "auth", "error"}]
    BY DEF TypeCalls
  <2>5. supplied' \subseteq Networks BY <1>0 DEF TypeCalls
  <2>6. QED BY <2>1, <2>2, <2>3, <2>4, <2>5 DEF TypeCalls
<1>3. TypeLoops' BY DEF TypeLoops, TypeStack, MaybeNetworks
<1>4. TypeBounds' BY DEF TypeBounds
<1>5. MutexHeld' BY DEF MutexHeld, Called, AtRest, TypeStack, TypeCalls
<1>6. Called' BY DEF Called, AtRest, TypeCalls
<1>7. AtRest' BY DEF AtRest, MutexHeld, TypeStack, TypeCalls
<1>8. RoleTracked' BY DEF RoleTracked, AtRest, MutexHeld, TypeStack, TypeCalls
<1>9. QED BY <1>1, <1>2, <1>3, <1>4, <1>5, <1>6, <1>7, <1>8

LEMMA ElapseStep == ASSUME IInv, NEW c \in Callers, Elapse(c) PROVE IInv'
<1> USE ThreadAssumption DEF IInv, TypeOK, Elapse, PollFrame, watchVars
<1>1. TypeStack' BY DEF TypeStack, MaybeNetworks
<1>2. TypeCalls' BY DEF TypeCalls, MaybeNetworks
<1>3. TypeLoops' BY DEF TypeLoops, TypeStack, MaybeNetworks
<1>4. TypeBounds' BY DEF TypeBounds
<1>5. MutexHeld' BY DEF MutexHeld, Called, AtRest, TypeStack, TypeCalls
<1>6. Called' BY DEF Called, AtRest, TypeCalls
<1>7. AtRest' BY DEF AtRest, MutexHeld, TypeStack, TypeCalls
<1>8. RoleTracked' BY DEF RoleTracked, AtRest, MutexHeld, TypeStack, TypeCalls
<1>9. QED BY <1>1, <1>2, <1>3, <1>4, <1>5, <1>6, <1>7, <1>8

\* The end of a poll frees the mutex: nobody else polls, so nobody loses it.
LEMMA PollSucceedsStep == ASSUME IInv, NEW c \in Callers, PollSucceeds(c) PROVE IInv'
<1> USE ThreadAssumption DEF IInv, TypeOK, PollSucceeds, Return, PollFrame,
                             watchVars
<1>1. TypeStack' BY DEF TypeStack, MaybeNetworks
<1>2. TypeCalls' BY DEF TypeCalls, MaybeNetworks
<1>3. TypeLoops' BY DEF TypeLoops, TypeStack, MaybeNetworks
<1>4. TypeBounds' BY DEF TypeBounds
<1>5. MutexHeld' BY DEF MutexHeld, Called, AtRest, TypeStack, TypeCalls
<1>6. Called' BY DEF Called, AtRest, TypeCalls
<1>7. AtRest' BY DEF AtRest, MutexHeld, TypeStack, TypeCalls
<1>8. RoleTracked' BY DEF RoleTracked, AtRest, MutexHeld, TypeStack, TypeCalls
<1>9. QED BY <1>1, <1>2, <1>3, <1>4, <1>5, <1>6, <1>7, <1>8

LEMMA PollGivesUpStep == ASSUME IInv, NEW c \in Callers, PollGivesUp(c) PROVE IInv'
<1> USE ThreadAssumption DEF IInv, TypeOK, PollGivesUp, ReadFails, Return,
                             PollFrame, watchVars
<1>1. TypeStack' BY DEF TypeStack, MaybeNetworks
<1>2. TypeCalls' BY DEF TypeCalls, MaybeNetworks
<1>3. TypeLoops' BY DEF TypeLoops, TypeStack, MaybeNetworks
<1>4. TypeBounds' BY DEF TypeBounds
<1>5. MutexHeld' BY DEF MutexHeld, Called, AtRest, TypeStack, TypeCalls
<1>6. Called' BY DEF Called, AtRest, TypeCalls
<1>7. AtRest' BY DEF AtRest, MutexHeld, TypeStack, TypeCalls
<1>8. RoleTracked' BY DEF RoleTracked, AtRest, MutexHeld, TypeStack, TypeCalls
<1>9. QED BY <1>1, <1>2, <1>3, <1>4, <1>5, <1>6, <1>7, <1>8

LEMMA PollFailsStep == ASSUME IInv, NEW c \in Callers, PollFails(c) PROVE IInv'
<1> USE ThreadAssumption DEF IInv, TypeOK, PollFails, ReadFails, Return,
                             PollFrame, watchVars
<1>1. TypeStack' BY DEF TypeStack, MaybeNetworks
<1>2. TypeCalls' BY DEF TypeCalls, MaybeNetworks
<1>3. TypeLoops' BY DEF TypeLoops, TypeStack, MaybeNetworks
<1>4. TypeBounds' BY DEF TypeBounds
<1>5. MutexHeld' BY DEF MutexHeld, Called, AtRest, TypeStack, TypeCalls
<1>6. Called' BY DEF Called, AtRest, TypeCalls
<1>7. AtRest' BY DEF AtRest, MutexHeld, TypeStack, TypeCalls
<1>8. RoleTracked' BY DEF RoleTracked, AtRest, MutexHeld, TypeStack, TypeCalls
<1>9. QED BY <1>1, <1>2, <1>3, <1>4, <1>5, <1>6, <1>7, <1>8

\* A cancelled call frees the mutex if it was the holder.
LEMMA CancelStep == ASSUME IInv, NEW c \in Callers, Cancel(c) PROVE IInv'
<1> USE ThreadAssumption DEF IInv, TypeOK, Cancel, PollFrame, watchVars
<1>1. TypeStack' BY DEF TypeStack, MaybeNetworks
<1>2. TypeCalls' BY DEF TypeCalls, MaybeNetworks
<1>3. TypeLoops' BY DEF TypeLoops, TypeStack, MaybeNetworks
<1>4. TypeBounds' BY DEF TypeBounds
<1>5. MutexHeld' BY DEF MutexHeld, Called, AtRest, TypeStack, TypeCalls
<1>6. Called' BY DEF Called, AtRest, TypeCalls
<1>7. AtRest' BY DEF AtRest, MutexHeld, TypeStack, TypeCalls
<1>8. RoleTracked' BY DEF RoleTracked, AtRest, MutexHeld, TypeStack, TypeCalls
<1>9. QED BY <1>1, <1>2, <1>3, <1>4, <1>5, <1>6, <1>7, <1>8

LEMMA ScanBeginStep == ASSUME IInv, ScanBegin PROVE IInv'
<1> USE ThreadAssumption DEF IInv, TypeOK, ScanBegin, ScanFrame, watchVars
<1>1. TypeStack' BY DEF TypeStack, MaybeNetworks
<1>2. TypeCalls' BY DEF TypeCalls, MaybeNetworks
<1>3. TypeLoops' BY DEF TypeLoops, TypeStack, MaybeNetworks
<1>4. TypeBounds' BY DEF TypeBounds
<1>5. MutexHeld' BY DEF MutexHeld, Called, AtRest, TypeStack, TypeCalls
<1>6. Called' BY DEF Called, AtRest, TypeCalls
<1>7. AtRest' BY DEF AtRest, MutexHeld, TypeStack, TypeCalls
<1>8. RoleTracked' BY DEF RoleTracked, AtRest, MutexHeld, TypeStack, TypeCalls
<1>9. QED BY <1>1, <1>2, <1>3, <1>4, <1>5, <1>6, <1>7, <1>8

LEMMA ScanReturnStep == ASSUME IInv, ScanReturn PROVE IInv'
<1> USE ThreadAssumption DEF IInv, TypeOK, ScanReturn, ScanFrame, watchVars
<1>1. TypeStack' BY DEF TypeStack, MaybeNetworks
<1>2. TypeCalls' BY DEF TypeCalls, MaybeNetworks
<1>3. TypeLoops' BY DEF TypeLoops, TypeStack, MaybeNetworks
<1>4. TypeBounds' BY DEF TypeBounds
<1>5. MutexHeld' BY DEF MutexHeld, Called, AtRest, TypeStack, TypeCalls
<1>6. Called' BY DEF Called, AtRest, TypeCalls
<1>7. AtRest' BY DEF AtRest, MutexHeld, TypeStack, TypeCalls
<1>8. RoleTracked' BY DEF RoleTracked, AtRest, MutexHeld, TypeStack, TypeCalls
<1>9. QED BY <1>1, <1>2, <1>3, <1>4, <1>5, <1>6, <1>7, <1>8

LEMMA CheckCtlStep == ASSUME IInv, CheckCtl PROVE IInv'
<1> USE ThreadAssumption DEF IInv, TypeOK, CheckCtl, Checked, ReadFails,
                             Operational, Attached, WatchFrame, stackVars,
                             callVars
<1>1. TypeStack' BY DEF TypeStack, MaybeNetworks
<1>2. TypeCalls' BY DEF TypeCalls, MaybeNetworks
<1>3. TypeLoops' BY DEF TypeLoops, TypeStack, MaybeNetworks, Watchers
<1>4. TypeBounds' BY DEF TypeBounds
<1>5. MutexHeld' BY DEF MutexHeld, Called, AtRest, TypeStack, TypeCalls
<1>6. Called' BY DEF Called, AtRest, TypeCalls
<1>7. AtRest' BY DEF AtRest, MutexHeld, TypeStack, TypeCalls
<1>8. RoleTracked' BY DEF RoleTracked, AtRest, MutexHeld, TypeStack, TypeCalls
<1>9. QED BY <1>1, <1>2, <1>3, <1>4, <1>5, <1>6, <1>7, <1>8

LEMMA CheckNetifStep == ASSUME IInv, CheckNetif PROVE IInv'
<1> USE ThreadAssumption DEF IInv, TypeOK, CheckNetif, Checked, ReadFails,
                             NetifInfo, UnreadNetifInfo, Attached, WatchFrame,
                             stackVars, callVars
<1>1. TypeStack' BY DEF TypeStack, MaybeNetworks
<1>2. TypeCalls' BY DEF TypeCalls, MaybeNetworks
<1>3. TypeLoops'
  <2>1. {NetifInfo, UnreadNetifInfo}
           \subseteq [operational : BOOLEAN, addr : MaybeNetworks \cup {LinkLocal}]
    BY DEF TypeStack
  <2>2. netifState' \in [operational : BOOLEAN,
                         addr : MaybeNetworks \cup {LinkLocal}]
    BY <2>1 DEF TypeLoops
  <2>3. wpc' \in [Watchers -> {"check", "subscribe", "wait"}]
    BY DEF TypeLoops, Watchers
  <2>4. QED BY <2>2, <2>3 DEF TypeLoops
<1>4. TypeBounds' BY DEF TypeBounds
<1>5. MutexHeld' BY DEF MutexHeld, Called, AtRest, TypeStack, TypeCalls
<1>6. Called' BY DEF Called, AtRest, TypeCalls
<1>7. AtRest' BY DEF AtRest, MutexHeld, TypeStack, TypeCalls
<1>8. RoleTracked' BY DEF RoleTracked, AtRest, MutexHeld, TypeStack, TypeCalls
<1>9. QED BY <1>1, <1>2, <1>3, <1>4, <1>5, <1>6, <1>7, <1>8

LEMMA SubscribeStep == ASSUME IInv, NEW w \in Watchers, Subscribe(w) PROVE IInv'
<1> USE ThreadAssumption DEF IInv, TypeOK, Subscribe, WatchFrame, stackVars,
                             callVars
<1>1. TypeStack' BY DEF TypeStack, MaybeNetworks
<1>2. TypeCalls' BY DEF TypeCalls, MaybeNetworks
<1>3. TypeLoops' BY DEF TypeLoops, TypeStack, MaybeNetworks, Watchers
<1>4. TypeBounds' BY DEF TypeBounds
<1>5. MutexHeld' BY DEF MutexHeld, Called, AtRest, TypeStack, TypeCalls
<1>6. Called' BY DEF Called, AtRest, TypeCalls
<1>7. AtRest' BY DEF AtRest, MutexHeld, TypeStack, TypeCalls
<1>8. RoleTracked' BY DEF RoleTracked, AtRest, MutexHeld, TypeStack, TypeCalls
<1>9. QED BY <1>1, <1>2, <1>3, <1>4, <1>5, <1>6, <1>7, <1>8

LEMMA SubscribeFailsStep == ASSUME IInv, NEW w \in Watchers, SubscribeFails(w) PROVE IInv'
<1> USE ThreadAssumption DEF IInv, TypeOK, SubscribeFails, ReadFails,
                             WatchFrame, stackVars, callVars
<1>1. TypeStack' BY DEF TypeStack, MaybeNetworks
<1>2. TypeCalls' BY DEF TypeCalls, MaybeNetworks
<1>3. TypeLoops' BY DEF TypeLoops, TypeStack, MaybeNetworks, Watchers
<1>4. TypeBounds' BY DEF TypeBounds
<1>5. MutexHeld' BY DEF MutexHeld, Called, AtRest, TypeStack, TypeCalls
<1>6. Called' BY DEF Called, AtRest, TypeCalls
<1>7. AtRest' BY DEF AtRest, MutexHeld, TypeStack, TypeCalls
<1>8. RoleTracked' BY DEF RoleTracked, AtRest, MutexHeld, TypeStack, TypeCalls
<1>9. QED BY <1>1, <1>2, <1>3, <1>4, <1>5, <1>6, <1>7, <1>8

LEMMA WaitEndsStep == ASSUME IInv, NEW w \in Watchers, WaitEnds(w) PROVE IInv'
<1> USE ThreadAssumption DEF IInv, TypeOK, WaitEnds, WatchFrame, stackVars,
                             callVars
<1>1. TypeStack' BY DEF TypeStack, MaybeNetworks
<1>2. TypeCalls' BY DEF TypeCalls, MaybeNetworks
<1>3. TypeLoops' BY DEF TypeLoops, TypeStack, MaybeNetworks, Watchers
<1>4. TypeBounds' BY DEF TypeBounds
<1>5. MutexHeld' BY DEF MutexHeld, Called, AtRest, TypeStack, TypeCalls
<1>6. Called' BY DEF Called, AtRest, TypeCalls
<1>7. AtRest' BY DEF AtRest, MutexHeld, TypeStack, TypeCalls
<1>8. RoleTracked' BY DEF RoleTracked, AtRest, MutexHeld, TypeStack, TypeCalls
<1>9. QED BY <1>1, <1>2, <1>3, <1>4, <1>5, <1>6, <1>7, <1>8

LEMMA InitIInv == Init => IInv
<1> SUFFICES ASSUME Init PROVE IInv OBVIOUS
<1> USE ThreadAssumption DEF Init
<1>1. TypeOK
  <2>1. TypeStack BY DEF TypeStack, MaybeNetworks
  <2>2. TypeCalls BY DEF TypeCalls, MaybeNetworks
  <2>3. TypeLoops BY DEF TypeLoops, NoState, MaybeNetworks, Watchers
  <2>4. TypeBounds BY DEF TypeBounds
  <2>5. QED BY <2>1, <2>2, <2>3, <2>4 DEF TypeOK
<1>2. MutexHeld BY DEF MutexHeld
<1>3. Called /\ AtRest /\ RoleTracked BY DEF Called, AtRest, RoleTracked
<1>4. QED BY <1>1, <1>2, <1>3 DEF IInv

LEMMA Stutter == ASSUME IInv, UNCHANGED vars PROVE IInv'
<1> USE DEF vars, stackVars, callVars, watchVars
<1>1. TypeOK'
  BY DEF IInv, TypeOK, TypeStack, TypeCalls, TypeLoops, TypeBounds
<1>2. MutexHeld' /\ Called' /\ AtRest' /\ RoleTracked'
  BY DEF IInv, MutexHeld, Called, AtRest, RoleTracked
<1>3. QED BY <1>1, <1>2 DEF IInv

LEMMA IInvStep == IInv /\ [Next]_vars => IInv'
<1> SUFFICES ASSUME IInv, [Next]_vars PROVE IInv' OBVIOUS
<1>1. CASE Start BY <1>1, StartStep
<1>2. CASE Stop BY <1>2, StopStep
<1>3. CASE Attach \/ Detach \/ AddrChange \/ ScanDone
  BY <1>3, AttachStep, DetachStep, AddrChangeStep, ScanDoneStep
<1>4. ASSUME NEW c \in Callers, Call(c) \/ Begin(c) \/ Poll(c) \/ Cancel(c)
      PROVE IInv'
  <2>1. CASE Call(c) BY <2>1, CallStep
  <2>2. CASE Begin(c) BY <2>2, BeginStep
  <2>3. CASE Poll(c)
    BY <2>3, ElapseStep, PollSucceedsStep, PollGivesUpStep, PollFailsStep
    DEF Poll
  <2>4. CASE Cancel(c) BY <2>4, CancelStep
  <2>5. QED BY <1>4, <2>1, <2>2, <2>3, <2>4
<1>5. CASE ScanBegin \/ ScanReturn BY <1>5, ScanBeginStep, ScanReturnStep
<1>6. ASSUME NEW w \in Watchers, Watch(w) PROVE IInv'
  BY <1>6, CheckCtlStep, CheckNetifStep, SubscribeStep, SubscribeFailsStep,
     WaitEndsStep
  DEF Watch
<1>7. CASE UNCHANGED vars BY <1>7, Stutter
<1>8. QED BY <1>1, <1>2, <1>3, <1>4, <1>5, <1>6, <1>7 DEF Next

\* The inductive invariant, for every step of the driver, the controller, the
\* watchers and the stack under them.
THEOREM ThreadInvariance == Spec => []IInv
BY InitIInv, IInvStep, PTL DEF Spec

\* Every variable keeps its type, and a stopped stack is attached to nothing.
THEOREM ThreadTypes == Spec => []TypeOK
<1>1. IInv => TypeOK BY DEF IInv
<1>2. QED BY <1>1, ThreadInvariance, PTL

\* A call that polls holds the mutex, on its own dataset, with Thread enabled
\* and no scan running (thread.rs:150, 261-287).
THEOREM PollTheorem == Spec => []PollsItsOwn
<1>1. IInv => PollsItsOwn
  BY ThreadAssumption DEF IInv, TypeOK, TypeCalls, MutexHeld, PollsItsOwn
<1>2. QED BY <1>1, ThreadInvariance, PTL

\* The radio holds no credentials but those supplied since the driver started
\* (wireless/thread.rs:169-178), however often the device reboots.
THEOREM CredentialsTheorem == Spec => []NoStaleCredentials
<1>1. IInv => NoStaleCredentials
  BY DEF IInv, RoleTracked, NoStaleCredentials
<1>2. QED BY <1>1, ThreadInvariance, PTL

\* connect returns Ok only when the node is on the network it was asked for
\* (thread.rs:263-302), though no reading names the network.
THEOREM OkTheorem == Spec => OkMeansTheTarget
<1> DEFINE Honest == \A c \in Callers : outcome[c] # "ok" /\ outcome'[c] = "ok"
                        => role = target[c] /\ dataset = target[c]
<1>1. ASSUME IInv, [Next]_vars PROVE Honest
  <2> SUFFICES ASSUME NEW c \in Callers, outcome[c] # "ok", outcome'[c] = "ok"
               PROVE role = target[c] /\ dataset = target[c]
    OBVIOUS
  <2> outcome \in [Callers -> {"none", "ok", "auth", "error"}]
    BY <1>1 DEF IInv, TypeOK, TypeCalls
  <2>1. outcome' # outcome OBVIOUS
  <2>2. PICK d \in Callers : Call(d) \/ Begin(d) \/ PollSucceeds(d)
                            \/ PollGivesUp(d) \/ PollFails(d) \/ Stop
    BY <1>1, <2>1
    DEF Next, Start, Attach, Detach, AddrChange, Change, ScanDone, Poll,
        Elapse, PollFrame, Cancel, ScanBegin, ScanReturn, ScanFrame, Watch,
        CheckCtl, CheckNetif, Checked, Subscribe, SubscribeFails, WaitEnds,
        WatchFrame, vars, callVars
  <2>3. PollSucceeds(c)
    BY <2>2 DEF Call, Begin, PollSucceeds, PollGivesUp, PollFails, Return, Stop
  <2>4. role # NoNetwork /\ pc[c] = "poll"
    BY <2>3 DEF PollSucceeds, Operational, Attached
  <2>5. QED BY <1>1, <2>4 DEF IInv, RoleTracked, MutexHeld
<1>2. QED BY <1>1, ThreadInvariance, PTL DEF Spec, OkMeansTheTarget

-----------------------------------------------------------------------------
(* The refinement of NetController.                                        *)

Owner  == IF lock \in Callers THEN lock ELSE NoOne
Answer == [c \in Callers |-> IF outcome[c] \in {"none", "ok"} THEN outcome[c]
                             ELSE "error"]

\* A caller that does not call asks for nothing, and without a driver nobody
\* has been answered.
Asking ==
    /\ \A c \in Callers : pc[c] = "idle" => target[c] = NoNetwork
    /\ driver = "off" => /\ target = [c \in Callers |-> NoNetwork]
                         /\ outcome = [c \in Callers |-> "none"]

LEMMA AskingStep ==
    ASSUME IInv, Asking, [Next]_vars PROVE Asking'
<1> USE ThreadAssumption DEF IInv, TypeOK, TypeStack, TypeCalls, Asking
<1>1. CASE Start \/ Stop
  BY <1>1 DEF Start, Stop, callVars, stackVars, watchVars
<1>2. CASE Attach \/ Detach \/ AddrChange \/ ScanDone \/ ScanBegin \/ ScanReturn
  BY <1>2 DEF Attach, Detach, AddrChange, Change, ScanDone, ScanBegin, ScanReturn,
              ScanFrame, callVars
<1>3. ASSUME NEW c \in Callers, Call(c) \/ Begin(c) \/ Poll(c) \/ Cancel(c)
      PROVE Asking'
  <2>1. CASE Call(c) BY <2>1 DEF Call
  <2>2. CASE Begin(c) BY <2>2 DEF Begin, Return, AtRest
  <2>3. CASE Poll(c)
    BY <2>3 DEF Poll, PollFrame, Elapse, PollSucceeds, PollGivesUp, PollFails,
                Return, AtRest
  <2>4. CASE Cancel(c) BY <2>4 DEF Cancel, PollFrame, AtRest
  <2>5. QED BY <1>3, <2>1, <2>2, <2>3, <2>4
<1>4. ASSUME NEW w \in Watchers, Watch(w) PROVE Asking'
  BY <1>4 DEF Watch, CheckCtl, CheckNetif, Checked, Subscribe, SubscribeFails,
              WaitEnds, WatchFrame, callVars
<1>5. CASE UNCHANGED vars BY <1>5 DEF vars, callVars
<1>6. QED BY <1>1, <1>2, <1>3, <1>4, <1>5 DEF Next

\* The driver's steps are a restart of the controller, or none.
LEMMA DriverImplements ==
    ASSUME IInv, Asking, Start \/ Stop
    PROVE  Controller!Restart \/ UNCHANGED Controller!vars
<1> USE ThreadAssumption
<1>1. CASE Start
  <2>1. Owner' = NoOne /\ Owner = NoOne
    BY <1>1 DEF Start, Owner, IInv, AtRest, callVars
  <2>2. /\ target' = [c \in Callers |-> NoNetwork]
        /\ Answer' = [c \in Callers |-> "none"]
        /\ role = NoNetwork /\ role' = NoNetwork
        /\ dataset' \in {dataset, NoNetwork}
    BY <1>1 DEF Start, Asking, IInv, TypeOK, TypeStack, AtRest, Answer, PurgedDataset,
                callVars
  <2>3. QED BY <2>1, <2>2 DEF Controller!Restart, Owner, Answer
<1>2. CASE Stop
  BY <1>2 DEF Stop, Controller!Restart
<1>3. QED BY <1>1, <1>2

\* OpenThread joins the network of its dataset, or leaves.
LEMMA StackImplements ==
    ASSUME IInv, Attach \/ Detach \/ AddrChange \/ ScanDone
    PROVE  Controller!Join \/ Controller!Leave \/ UNCHANGED Controller!vars
BY DEF Attach, Detach, AddrChange, ScanDone, Attached, Change, callVars, Controller!Join,
       Controller!Leave, Controller!vars

\* What a step of a call does to the others' answers: nothing.
LEMMA AnswerOf ==
    ASSUME IInv, NEW c \in Callers, NEW r \in {"none", "ok", "auth", "error"},
           outcome' = [outcome EXCEPT ![c] = r]
    PROVE  Answer' = [Answer EXCEPT ![c] = IF r \in {"none", "ok"} THEN r ELSE "error"]
BY DEF IInv, TypeOK, TypeCalls, Answer

LEMMA CallImplements ==
    ASSUME IInv, Asking, NEW c \in Callers, Call(c)
    PROVE  \E n \in Networks : Controller!Ask(c, n)
<1>1. PICK n \in Networks : target' = [target EXCEPT ![c] = n] BY DEF Call
<1>2. Answer' = [Answer EXCEPT ![c] = "none"] BY AnswerOf DEF Call
<1>3. Owner' = Owner BY DEF Call, Owner
<1>4. Controller!Ask(c, n)
  BY <1>1, <1>2, <1>3, ThreadAssumption
  DEF Call, Asking, stackVars, Controller!Ask, Owner, Answer
<1>5. QED BY <1>4

\* Begin takes control, or fails at once.
LEMMA BeginImplements ==
    ASSUME IInv, NEW c \in Callers, Begin(c)
    PROVE  Controller!Control(c) \/ Controller!SayError(c)
<1> USE ThreadAssumption
<1>0. target[c] \in Networks /\ target[c] # NoNetwork /\ Owner = NoOne
  BY DEF IInv, Called, Begin, Owner
<1>1. CASE pc' = [pc EXCEPT ![c] = "poll"]
  <2>1. Owner' = c /\ UNCHANGED <<target, outcome>> /\ dataset' = target[c]
        /\ role' = NoNetwork
    BY <1>1 DEF Begin, Return, Owner, PollHolder, RoleOnceStopped, IInv, TypeOK, TypeCalls
  <2>2. Answer' = Answer BY <2>1 DEF Answer
  <2>3. QED BY <1>0, <2>1, <2>2 DEF Controller!Control, Controller!Turn, Owner, Answer
<1>2. CASE Return(c, "error")
  <2>1. Answer' = [Answer EXCEPT ![c] = "error"] BY <1>2, AnswerOf DEF Return
  <2>2. Owner' = NoOne /\ target' = [target EXCEPT ![c] = NoNetwork]
    BY <1>2 DEF Return, Owner
  <2>3. role' = NoNetwork /\ dataset' \in {dataset, target[c]}
    BY DEF Begin, RoleOnceStopped
  <2>4. QED BY <1>0, <2>1, <2>2, <2>3
            DEF Controller!SayError, Controller!Done, Controller!Turn, Owner, Answer
<1>3. QED BY <1>1, <1>2 DEF Begin

\* A polling call says what it has found.
LEMMA PollImplements ==
    ASSUME IInv, NEW c \in Callers, Poll(c)
    PROVE  \/ Controller!SayOk(c) \/ Controller!SayError(c)
           \/ UNCHANGED Controller!vars
<1> USE ThreadAssumption
<1>0. /\ pc[c] = "poll" /\ lock = c /\ dataset = target[c] /\ dataset' = dataset
      /\ target[c] \in Networks /\ target[c] # NoNetwork /\ Owner = c
  BY DEF IInv, MutexHeld, Poll, Elapse, PollSucceeds, PollGivesUp, PollFails, PollFrame,
         Owner
<1>1. CASE Elapse(c)
  BY <1>1 DEF Elapse, PollFrame, Controller!vars
<1>2. ASSUME NEW r \in {"ok", "auth", "error"}, Return(c, r)
      PROVE  /\ Answer' = [Answer EXCEPT ![c] = IF r = "ok" THEN r ELSE "error"]
             /\ Owner' = NoOne /\ target' = [target EXCEPT ![c] = NoNetwork]
  BY <1>2, AnswerOf DEF Return, Owner
<1>3. CASE PollSucceeds(c)
  <2>1. role = dataset /\ role' = role
    BY <1>3 DEF PollSucceeds, Operational, Attached, IInv, RoleTracked
  <2>2. Return(c, "ok") BY <1>3 DEF PollSucceeds
  <2>3. QED BY <1>0, <1>2, <2>1, <2>2
            DEF Controller!SayOk, Controller!Done, Owner, Answer
<1>4. CASE PollGivesUp(c) \/ PollFails(c)
  <2>1. Return(c, "auth") \/ Return(c, "error") BY <1>4 DEF PollGivesUp, PollFails
  <2>2. role' \in {role, NoNetwork} BY <1>4 DEF PollGivesUp, PollFails
  <2>3. Answer' = [Answer EXCEPT ![c] = "error"]
        /\ Owner' = NoOne /\ target' = [target EXCEPT ![c] = NoNetwork]
    BY <1>2, <2>1
  <2>4. QED BY <1>0, <2>2, <2>3
            DEF Controller!SayError, Controller!Done, Controller!Turn, Owner, Answer
<1>5. QED BY <1>1, <1>3, <1>4 DEF Poll

LEMMA CancelImplements ==
    ASSUME IInv, Asking, NEW c \in Callers, Cancel(c)
    PROVE  Controller!Cancel(c) \/ UNCHANGED Controller!vars
<1> USE ThreadAssumption
<1>1. pc[c] = "enter" \/ pc[c] = "poll" BY DEF Cancel, IInv, TypeOK, TypeCalls
<1>2. target[c] # NoNetwork BY <1>1 DEF IInv, Called, MutexHeld
<1>3. Owner' = IF Owner = c THEN NoOne ELSE Owner BY DEF Cancel, Owner
<1>4. Answer' = Answer BY DEF Cancel, Answer
<1>5. QED BY <1>2, <1>3, <1>4
          DEF Cancel, PollFrame, Controller!Cancel, Controller!Done, Owner, Answer

\* The scan and the watchers are no business of the controller's callers.
LEMMA OthersImplement ==
    ASSUME IInv, ScanBegin \/ ScanReturn \/ (\E w \in Watchers : Watch(w))
                 \/ UNCHANGED vars
    PROVE  UNCHANGED Controller!vars
<1> USE ThreadAssumption
<1>1. Owner' = Owner
  BY DEF ScanBegin, ScanReturn, Watch, CheckCtl, CheckNetif, Checked, Subscribe,
         SubscribeFails, WaitEnds, WatchFrame, vars, Owner, IInv, MutexHeld
<1>2. UNCHANGED <<target, outcome, dataset, role>>
  BY DEF ScanBegin, ScanReturn, ScanFrame, Watch, CheckCtl, CheckNetif, Checked,
         Subscribe, SubscribeFails, WaitEnds, WatchFrame, vars, callVars, stackVars
<1>3. Answer' = Answer BY <1>2 DEF Answer
<1>4. QED BY <1>1, <1>2, <1>3 DEF Controller!vars, Owner, Answer

LEMMA ControllerStep ==
    ASSUME IInv, Asking, [Next]_vars
    PROVE  [Controller!Next]_(Controller!vars)
<1>1. CASE Start \/ Stop BY <1>1, DriverImplements DEF Controller!Next
<1>2. CASE Attach \/ Detach \/ AddrChange \/ ScanDone
  BY <1>2, StackImplements DEF Controller!Next
<1>3. ASSUME NEW c \in Callers, Call(c) \/ Begin(c) \/ Poll(c) \/ Cancel(c)
      PROVE  [Controller!Next]_(Controller!vars)
  BY <1>3, CallImplements, BeginImplements, PollImplements, CancelImplements
  DEF Controller!Next
<1>4. CASE ScanBegin \/ ScanReturn \/ (\E w \in Watchers : Watch(w))
           \/ UNCHANGED vars
  BY <1>4, OthersImplement
<1>5. QED BY <1>1, <1>2, <1>3, <1>4 DEF Next

\* The Thread controller implements NetController: one call in control, the
\* stack only ever on the network of the last one, Ok only for that network
\* (thread.rs:253-310), for any number of networks, callers and runs.
THEOREM ControllerTheorem == Spec => ImplementsController
<1>1. Init => Asking /\ Controller!Init
  BY ThreadAssumption DEF Init, Asking, Controller!Init
<1>2. IInv /\ Asking /\ [Next]_vars => Asking' BY AskingStep
<1>3. IInv /\ Asking /\ [Next]_vars => [Controller!Next]_(Controller!vars)
  BY ControllerStep
<1>4. QED BY <1>1, <1>2, <1>3, ThreadInvariance, PTL
          DEF Spec, ImplementsController, Controller!Spec

-----------------------------------------------------------------------------
(* What a failed connect leaves behind.                                    *)

\* Somebody answers for an enabled stack: a call that has not failed, as no
\* pending call has.
Answered ==
    /\ enabled => \E c \in Callers : outcome[c] \notin {"auth", "error"}
    /\ \A c \in Callers : pc[c] # "idle" => outcome[c] = "none"

AnsweredSoFar == faults = 0 => Answered

LEMMA FaultsStay == IInv /\ [Next]_vars => faults' = faults \/ faults' # 0
<1> SUFFICES ASSUME IInv, [Next]_vars PROVE faults' = faults \/ faults' # 0 OBVIOUS
<1>1. ReadFails => faults' # 0 BY DEF ReadFails, IInv, TypeOK, TypeBounds
<1>2. CASE Start \/ Stop \/ Attach \/ Detach \/ AddrChange \/ ScanDone \/ UNCHANGED vars
  BY <1>2 DEF Start, Stop, Attach, Detach, AddrChange, ScanDone, Change, vars
<1>3. ASSUME NEW c \in Callers, Call(c) \/ Begin(c) \/ Poll(c) \/ Cancel(c)
      PROVE  faults' = faults \/ faults' # 0
  BY <1>1, <1>3
  DEF Call, Begin, Poll, Elapse, PollSucceeds, PollGivesUp, PollFails, Cancel
<1>4. CASE ScanBegin \/ ScanReturn BY <1>4 DEF ScanBegin, ScanReturn, ScanFrame
<1>5. ASSUME NEW w \in Watchers, Watch(w) PROVE faults' = faults \/ faults' # 0
  BY <1>1, <1>5
  DEF Watch, CheckCtl, CheckNetif, Subscribe, SubscribeFails, WaitEnds
<1>6. QED BY <1>2, <1>3, <1>4, <1>5 DEF Next

LEMMA AnsweredStep ==
    ASSUME IInv, Answered, [Next]_vars, ~(\E c \in Callers : PollFails(c))
    PROVE  Answered'
<1> USE DEF Answered
<1>1. /\ outcome \in [Callers -> {"none", "ok", "auth", "error"}]
      /\ pc \in [Callers -> {"idle", "enter", "poll"}]
  BY DEF IInv, TypeOK, TypeCalls
<1>2. CASE Start \/ Attach \/ Detach \/ AddrChange \/ ScanDone \/ ScanBegin \/ ScanReturn
           \/ (\E w \in Watchers : Watch(w)) \/ UNCHANGED vars
  <2>1. UNCHANGED <<enabled, outcome, pc>>
    BY <1>2
    DEF Start, Attach, Detach, AddrChange, Change, ScanDone, ScanBegin, ScanReturn,
        ScanFrame, Watch, CheckCtl, CheckNetif, Checked, Subscribe, SubscribeFails,
        WaitEnds, WatchFrame, vars, callVars, stackVars
  <2>2. QED BY <2>1
<1>3. CASE Stop BY <1>3 DEF Stop
<1>4. ASSUME NEW c \in Callers, Call(c) PROVE Answered'
  <2>1. outcome' = [outcome EXCEPT ![c] = "none"] /\ pc' = [pc EXCEPT ![c] = "enter"]
    BY <1>4 DEF Call
  <2>2. outcome'[c] = "none" BY <1>1, <2>1
  <2>3. QED BY <1>1, <2>1, <2>2
<1>5. ASSUME NEW c \in Callers, Begin(c) PROVE Answered'
  <2>1. outcome[c] = "none" BY <1>5 DEF Begin
  <2>2. CASE enabled' = FALSE BY <1>1, <1>5, <2>1, <2>2 DEF Begin, Return
  <2>3. CASE enabled' # FALSE
    <3>1. UNCHANGED outcome /\ pc' = [pc EXCEPT ![c] = "poll"]
      BY <1>5, <2>3 DEF Begin
    <3>2. QED BY <1>1, <2>1, <3>1
  <2>4. QED BY <2>2, <2>3
<1>6. ASSUME NEW c \in Callers, Elapse(c) \/ Cancel(c) PROVE Answered'
  BY <1>1, <1>6 DEF Elapse, Cancel
<1>7. ASSUME NEW c \in Callers, PollSucceeds(c) PROVE Answered'
  <2>1. outcome' = [outcome EXCEPT ![c] = "ok"] /\ pc' = [pc EXCEPT ![c] = "idle"]
    BY <1>7 DEF PollSucceeds, Return
  <2>2. outcome'[c] = "ok" BY <1>1, <2>1
  <2>3. QED BY <1>1, <2>1, <2>2
<1>8. ASSUME NEW c \in Callers, PollGivesUp(c) PROVE Answered'
  BY <1>1, <1>8 DEF PollGivesUp, Return
<1>9. QED BY <1>2, <1>3, <1>4, <1>5, <1>6, <1>7, <1>8 DEF Next, Poll

\* As long as no reading of the stack has failed, Thread is disabled whenever
\* every connect has returned and failed (thread.rs:275-310), whatever was
\* cancelled, raced or tried again before: an early return of a failed reading
\* (thread.rs:276) is the only way to leave the stack churning.
THEOREM AloneTheorem == Spec => []LeftAloneUnlessUnread
<1>1. Init => AnsweredSoFar
  BY DEF Init, Answered, AnsweredSoFar
<1>2. IInv /\ AnsweredSoFar /\ [Next]_vars => AnsweredSoFar'
  <2> SUFFICES ASSUME IInv, faults = 0 => Answered, [Next]_vars, faults' = 0
               PROVE  Answered'
    BY DEF AnsweredSoFar
  <2>1. faults = 0 BY FaultsStay
  <2>2. ASSUME NEW c \in Callers, PollFails(c) PROVE FALSE
    BY <2>1, <2>2 DEF PollFails, ReadFails
  <2>3. QED BY <2>1, <2>2, AnsweredStep
<1>3. AnsweredSoFar => LeftAloneUnlessUnread
  BY DEF Answered, AnsweredSoFar, LeftAloneUnlessUnread, LeftAlone
<1>4. QED BY <1>1, <1>2, <1>3, ThreadInvariance, PTL DEF Spec
=============================================================================
