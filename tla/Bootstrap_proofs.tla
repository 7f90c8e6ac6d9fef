--------------------------- MODULE Bootstrap_proofs ---------------------------
(***************************************************************************)
(* Proofs about IdentityBinding and Bootstrap, for any environments,       *)
(* directories, sessions, calls and EnsureBounds.  Of the bind seam: the   *)
(* type invariant, that binding is single-flight and, until two calls are  *)
(* under way in different EnsureBounds, that each acts as its session and  *)
(* the cache tells the truth.  Of the processes of a seat: what is proved  *)
(* of the seam holds as they come and go, a session keeps its bot wherever *)
(* its shell goes, and what an agent has unsubscribed from stays so over   *)
(* restarts.                                                               *)
(***************************************************************************)
EXTENDS Bootstrap, TLAPS

-----------------------------------------------------------------------------
(* The bind seam *)

\* A call is engaged in an EnsureBound while it runs its hook, also while the
\* hook passes the bind seam again.
Engaged(c, e) == call[c].outer = e \/ (InHook(c) /\ call[c].entry = e)

\* What keeps a dying hook from dropping an acquire that another call has in
\* flight: a hook runs in an acquired EnsureBound, and only one call's hook.
HookHolds ==
  /\ \A c \in Calls, e \in Entries : Engaged(c, e) => status[e] = "acquired"
  /\ \A c, d \in Calls, e \in Entries : Engaged(c, e) /\ Engaged(d, e) => c = d

\* A call that is under way acts for a session and runs an EnsureBound.
Acting ==
  \A c \in Calls :
    ~At(c, "free") => call[c].entry \in Entries /\ call[c].sid \in Sessions

WellBound == TypeOK /\ Acting /\ SingleFlight /\ HookHolds

CallRecord ==
  [pc : {"free", "bind", "await", "release", "acquire", "hook", "seeded", "granted"},
   sid : Sessions \cup {NoSession},
   entry : 0 .. MaxEntries, outer : 0 .. MaxEntries]

USE DEF Entries, NoEntry

-----------------------------------------------------------------------------
(* Types *)

LEMMA CallTypes ==
  /\ Idle \in CallRecord
  /\ \A r \in CallRecord : Resumed(r) \in CallRecord
<1>1. 0 \in 0 .. MaxEntries
  BY BindingAssumption DEF BindingAssumption
<1> QED
  BY <1>1 DEF Idle, Resumed, CallRecord

\* A bind that ends leaves its call free, or back in the hook it was made in.
LEMMA ResumedCalls ==
  ASSUME NEW r \in CallRecord
  PROVE  IF r.outer = NoEntry
           THEN Resumed(r).pc = "free" /\ Resumed(r).outer = NoEntry
           ELSE /\ Resumed(r).pc = "seeded" /\ Resumed(r).sid = r.sid
                /\ Resumed(r).entry = r.outer /\ r.outer \in Entries
                /\ Resumed(r).outer = NoEntry
  BY BindingAssumption DEF BindingAssumption, Resumed, Idle, CallRecord

\* Asking the cache keeps its types, and what was minted stays minted.
LEMMA CacheTypes ==
  ASSUME TypeOK, NEW s \in Sessions, NEW e \in Entries, EnsureBoundFor(s, e)
  PROVE  /\ slot' \in 0 .. minted' /\ minted' \in 0 .. MaxEntries
         /\ owner' \in [Entries -> Sessions \cup {NoSession}]
         /\ prior' \in [Entries -> 0 .. MaxEntries]
<1> USE BindingAssumption DEF BindingAssumption
<1>1. CASE UNCHANGED cache
  BY <1>1 DEF TypeOK, cache
<1>2. CASE /\ minted < MaxEntries /\ e = minted + 1
           /\ minted' = e /\ slot' = e
           /\ owner' = [owner EXCEPT ![e] = s]
           /\ prior' = [prior EXCEPT ![e] = slot]
  <2>1. slot \in 0 .. MaxEntries /\ e \in 0 .. e
    BY DEF TypeOK
  <2> QED
    BY <1>2, <2>1 DEF TypeOK
<1> QED
  BY <1>1, <1>2 DEF EnsureBoundFor

\* A write is logged for the session that made it, and its call goes on.
LEMMA WriteTypes ==
  ASSUME TypeOK, Acting, NEW c \in Calls, ~At(c, "free"), WriteOut(c)
  PROVE  /\ sent' \subseteq Sessions \X Sessions
         /\ call' \in [Calls -> CallRecord]
         /\ Acting'
<1>1. call \in [Calls -> CallRecord] /\ call[c] \in CallRecord
  BY DEF TypeOK, CallRecord
<1>2. bound # NoSession => <<call[c].sid, bound>> \in Sessions \X Sessions
  BY DEF TypeOK, Acting
<1>3. Acting'
  BY <1>1 DEF Acting, At, WriteOut, Resumed, Idle, CallRecord
<1> QED
  BY <1>1, <1>2, <1>3, CallTypes DEF WriteOut, TypeOK

LEMMA TypeKept ==
  ASSUME UNCHANGED vars PROVE TypeOK' = TypeOK /\ Acting' = Acting
  BY DEF vars, TypeOK, Acting, At

\* Whatever dies leaves its calls free and its bindings idle.
LEMMA DyingTypes ==
  ASSUME TypeOK, Acting, NEW c \in Calls, Dies(c) \/ HookDies(c)
  PROVE  TypeOK' /\ Acting'
<1>1. call' \in [Calls -> CallRecord] /\ Acting'
  <2>1. call \in [Calls -> CallRecord]
    BY DEF TypeOK, CallRecord
  <2>2. \A d \in Calls : call'[d] \in {Idle, call[d]}
    BY <2>1 DEF Dies, HookDies
  <2>3. call' \in [Calls -> CallRecord]
    BY <2>1, <2>2, CallTypes DEF Dies, HookDies
  <2> QED
    BY <2>2, <2>3 DEF Acting, At, Idle
<1>2. status' \in [Entries -> {"idle", "pending", "acquired"}]
  BY DEF Dies, HookDies, TypeOK
<1> QED
  BY <1>1, <1>2 DEF Dies, HookDies, TypeOK, CallRecord, cache

\* Every step keeps the types.
LEMMA StepTypes == ASSUME TypeOK, Acting, Next PROVE TypeOK' /\ Acting'
<1> USE BindingAssumption DEF BindingAssumption
<1>0. call \in [Calls -> CallRecord]
  BY DEF TypeOK, CallRecord
<1>00. TypeOK' <=>
        /\ slot' \in 0 .. minted' /\ minted' \in 0 .. MaxEntries
        /\ owner' \in [Entries -> Sessions \cup {NoSession}]
        /\ prior' \in [Entries -> 0 .. MaxEntries]
        /\ status' \in [Entries -> {"idle", "pending", "acquired"}]
        /\ bound' \in Sessions \cup {NoSession}
        /\ call' \in [Calls -> CallRecord]
        /\ sent' \subseteq Sessions \X Sessions /\ crossed' \in BOOLEAN
  BY DEF TypeOK, CallRecord
<1>1. ASSUME NEW s \in Sessions, Peek(s) PROVE TypeOK' /\ Acting'
  BY <1>1, <1>0, <1>00, CacheTypes DEF Peek, TypeOK, Acting, At
<1>2. ASSUME NEW c \in Calls, NEW s \in Sessions, StartCall(c, s) PROVE TypeOK' /\ Acting'
  <2>1. PICK e \in Entries :
          /\ EnsureBoundFor(s, e)
          /\ call' = [call EXCEPT ![c] = Binding(s, e, NoEntry)]
    BY <1>2 DEF StartCall
  <2>2. Binding(s, e, NoEntry) \in CallRecord
    BY DEF CallRecord, Binding
  <2>3. Acting'
    BY <1>0, <2>1 DEF Acting, At, Binding
  <2> QED
    BY <1>2, <1>0, <1>00, <2>1, <2>2, <2>3, CacheTypes DEF StartCall, TypeOK
<1>3. ASSUME NEW c \in Calls, HaveIdentity(c) \/ HookReturns(c) \/ WokenWrites(c)
      PROVE  TypeOK' /\ Acting'
  <2>1. /\ ~At(c, "free") /\ WriteOut(c) /\ UNCHANGED <<cache, status, bound>>
        /\ UNCHANGED crossed
    BY <1>3 DEF HaveIdentity, HookReturns, WokenWrites, WriteOut, InHook, At
  <2> QED
    BY <1>00, <2>1, WriteTypes DEF TypeOK, cache
<1>4. ASSUME NEW c \in Calls, AwaitAcquire(c) \/ RunAcquire(c) \/ ReleasePrior(c)
      PROVE  TypeOK' /\ Acting'
  <2>1. PICK p \in {"await", "release", "acquire"} : call' = [call EXCEPT ![c].pc = p]
    BY <1>4 DEF AwaitAcquire, RunAcquire, ReleasePrior, Goes
  <2>2. ~At(c, "free") /\ UNCHANGED <<cache, sent, crossed>>
    BY <1>4 DEF AwaitAcquire, RunAcquire, ReleasePrior, At
  <2>3. bound' \in Sessions \cup {NoSession}
    BY <1>4 DEF AwaitAcquire, RunAcquire, ReleasePrior, TypeOK
  <2>4. status' \in [Entries -> {"idle", "pending", "acquired"}]
    BY <1>4 DEF AwaitAcquire, RunAcquire, ReleasePrior, TypeOK
  <2>5. call' \in [Calls -> CallRecord] /\ Acting'
    BY <1>0, <2>1, <2>2 DEF CallRecord, Acting, At
  <2> QED
    BY <1>00, <2>2, <2>3, <2>4, <2>5 DEF TypeOK, cache
<1>5. ASSUME NEW c \in Calls, AcquireSucceeds(c) PROVE TypeOK' /\ Acting'
  <2>1. call' \in [Calls -> CallRecord] /\ Acting'
    BY <1>5, <1>0 DEF AcquireSucceeds, CallRecord, Acting, At, Awaits
  <2>2. call[c].sid \in Sessions /\ call[c].entry \in Entries
    BY <1>5 DEF AcquireSucceeds, At, Acting
  <2>3. status' \in [Entries -> {"idle", "pending", "acquired"}] /\ bound' \in Sessions
    BY <1>5, <2>2 DEF AcquireSucceeds, TypeOK
  <2> QED
    BY <1>5, <1>00, <2>1, <2>3 DEF AcquireSucceeds, TypeOK, cache
<1>6. ASSUME NEW c \in Calls, AcquireFails(c) PROVE TypeOK' /\ Acting'
  <2>1. call' \in [Calls -> CallRecord]
    BY <1>6, <1>0, CallTypes DEF AcquireFails
  <2>2. Acting'
    <3>1. ASSUME NEW d \in Calls, ~At(d, "free")'
          PROVE  call'[d].entry \in Entries /\ call'[d].sid \in Sessions
      <4>1. CASE call'[d] = call[d]
        BY <3>1, <4>1 DEF Acting, At
      <4>2. CASE call'[d] = Resumed(call[d]) /\ ~At(d, "free")
        BY <3>1, <4>2, <1>0, ResumedCalls DEF Acting, At
      <4> QED
        BY <1>6, <4>1, <4>2 DEF AcquireFails, Awaits, At
    <3> QED
      BY <3>1 DEF Acting, At
  <2>3. status' \in [Entries -> {"idle", "pending", "acquired"}]
    BY <1>6 DEF AcquireFails, TypeOK
  <2> QED
    BY <1>6, <1>00, <2>1, <2>2, <2>3 DEF AcquireFails, TypeOK, cache
<1>7. ASSUME NEW c \in Calls, AcquireDies(c) \/ HookDies(c) PROVE TypeOK' /\ Acting'
  BY <1>7, DyingTypes DEF AcquireDies
<1>8. ASSUME NEW c \in Calls, HookReenters(c) PROVE TypeOK' /\ Acting'
  <2>1. PICK e \in Entries :
          /\ EnsureBoundFor(call[c].sid, e)
          /\ call' = [call EXCEPT ![c] = Binding(call[c].sid, e, call[c].entry)]
    BY <1>8 DEF HookReenters
  <2>2. call[c].sid \in Sessions
    BY <1>8 DEF HookReenters, Acting, At
  <2>3. call[c].entry \in 0 .. MaxEntries
    BY <1>0 DEF CallRecord
  <2>4. Binding(call[c].sid, e, call[c].entry) \in CallRecord
    BY <2>2, <2>3 DEF CallRecord, Binding
  <2>5. call' \in [Calls -> CallRecord] /\ Acting'
    BY <1>0, <2>1, <2>2, <2>4 DEF Acting, At, Binding
  <2> QED
    BY <1>8, <1>00, <2>1, <2>2, <2>5, CacheTypes DEF HookReenters, TypeOK
<1> QED
  BY <1>1, <1>2, <1>3, <1>4, <1>5, <1>6, <1>7, <1>8 DEF Next, Advance

-----------------------------------------------------------------------------
(* Single flight *)

USE DEF SingleFlight, HookHolds

\* A step of one call that runs no acquire, changes no status and engages the
\* call in nothing new.
LEMMA QuietCall ==
  ASSUME SingleFlight, HookHolds, NEW c \in Calls, status' = status,
         \A d \in Calls : d # c => call'[d] = call[d],
         \A e \in Entries : ~Runs(c, e) /\ ~Runs(c, e)' /\ (Engaged(c, e)' => Engaged(c, e)),
         At(c, "await")' => status[call'[c].entry] = "pending"
  PROVE  SingleFlight' /\ HookHolds'
<1>1. \A d \in Calls, e \in Entries : Runs(d, e)' <=> Runs(d, e)
  BY DEF Runs
<1>2. \A d \in Calls, e \in Entries : Engaged(d, e)' => Engaged(d, e)
  BY DEF Engaged, InHook, At
<1>3. \A d \in Calls : At(d, "await")' => status'[call'[d].entry] = "pending"
  BY DEF At
<1> QED
  BY <1>1, <1>2, <1>3

\* A bind that ends leaves its call engaged in no more than it was.
LEMMA ResumedQuietly ==
  ASSUME TypeOK, NEW c \in Calls, call'[c] = Resumed(call[c])
  PROVE  /\ \A e \in Entries : ~Runs(c, e)' /\ (Engaged(c, e)' => Engaged(c, e))
         /\ ~At(c, "await")'
<1>1. call[c] \in CallRecord
  BY DEF TypeOK, CallRecord
<1> QED
  BY <1>1, ResumedCalls DEF Runs, Engaged, InHook, At

LEMMA WriteFlight ==
  ASSUME WellBound, NEW c \in Calls, WriteOut(c), status' = status,
         \A e \in Entries : ~Runs(c, e)
  PROVE  SingleFlight' /\ HookHolds'
<1>1. call'[c] = Resumed(call[c]) /\ \A d \in Calls : d # c => call'[d] = call[d]
  BY DEF WriteOut, WellBound, TypeOK
<1> QED
  BY <1>1, ResumedQuietly, QuietCall DEF WellBound

\* The calls that begin a bind, from outside or out of a hook.
LEMMA BindingFlight ==
  ASSUME WellBound, NEW c \in Calls, NEW s, NEW e \in Entries, NEW o,
         call' = [call EXCEPT ![c] = Binding(s, e, o)], status' = status,
         \A f \in Entries : ~Runs(c, f) /\ (o = f => Engaged(c, f))
  PROVE  SingleFlight' /\ HookHolds'
<1>1. call'[c] = Binding(s, e, o) /\ \A d \in Calls : d # c => call'[d] = call[d]
  BY DEF WellBound, TypeOK
<1>2. \A f \in Entries : ~Runs(c, f)' /\ (Engaged(c, f)' => Engaged(c, f))
  BY <1>1 DEF Runs, Engaged, InHook, At, Binding
<1>3. ~At(c, "await")'
  BY <1>1 DEF At, Binding
<1> QED
  BY <1>1, <1>2, <1>3, QuietCall DEF WellBound

\* The caller that finds an EnsureBound idle is the only one to run it.
LEMMA RunFlight ==
  ASSUME WellBound, NEW c \in Calls, RunAcquire(c)
  PROVE  SingleFlight' /\ HookHolds'
<1> DEFINE e == call[c].entry
<1>1. e \in Entries /\ status[e] = "idle" /\ call[c].pc = "bind"
  BY DEF RunAcquire, WellBound, Acting, At
<1>2. /\ status' = [status EXCEPT ![e] = "pending"]
      /\ \A d \in Calls : d # c => call'[d] = call[d]
      /\ call'[c].pc \in {"release", "acquire"} /\ call'[c].entry = e
      /\ call'[c].outer = call[c].outer
  BY DEF RunAcquire, Goes, WellBound, TypeOK
<1>3. \A d \in Calls : ~Runs(d, e) /\ ~Engaged(d, e)
  BY <1>1 DEF WellBound
<1>4. \A d \in Calls, f \in Entries : Runs(d, f)' <=> Runs(d, f) \/ (d = c /\ f = e)
  BY <1>1, <1>2 DEF Runs
<1>5. \A d \in Calls, f \in Entries : Engaged(d, f)' => Engaged(d, f)
  BY <1>1, <1>2 DEF Engaged, InHook, At
<1>6. \A f \in Entries : status'[f] = IF f = e THEN "pending" ELSE status[f]
  BY <1>1, <1>2 DEF WellBound, TypeOK
<1>7. \A d \in Calls : At(d, "await")' => At(d, "await") /\ call'[d] = call[d]
  BY <1>2 DEF At
<1>8. \A d \in Calls : At(d, "await")' => status'[call'[d].entry] = "pending"
  <2>1. \A d \in Calls : At(d, "await") => call[d].entry \in Entries
    BY DEF WellBound, Acting, At
  <2> QED
    BY <2>1, <1>6, <1>7 DEF WellBound
<1> HIDE DEF e
<1>9. SingleFlight'
  BY <1>1, <1>3, <1>4, <1>6, <1>8 DEF WellBound
<1>10. HookHolds'
  BY <1>3, <1>5, <1>6 DEF WellBound
<1> QED
  BY <1>9, <1>10

\* An acquire that ends: nobody runs or awaits its EnsureBound any more.  What
\* it reads then, `s`, and the bindings that are dropped with it, are the
\* outcome's.
LEMMA AcquireEnds ==
  ASSUME WellBound, NEW c \in Calls, NEW e \in Entries, Runs(c, e),
         NEW s \in {"idle", "acquired"}, NEW dropped,
         status' = [f \in Entries |->
           IF f = e THEN s ELSE IF f \in dropped THEN "idle" ELSE status[f]],
         \A d \in Calls : d # c /\ ~Awaits(d, e) => call'[d] = call[d],
         \A d \in Calls : d = c \/ Awaits(d, e) =>
           ~At(d, "await")' /\ \A f \in Entries : ~Runs(d, f)',
         \A d \in Calls, f \in Entries : Engaged(d, f)' =>
           (d = c /\ f = e /\ s = "acquired") \/ (Engaged(d, f) /\ f \notin dropped),
         \A f \in dropped \ {e} : \E d \in Calls : Engaged(d, f)
  PROVE  SingleFlight' /\ HookHolds'
<1>1. \A d \in Calls : ~Engaged(d, e) /\ (Runs(d, e) => d = c)
  BY DEF WellBound
<1>2. \A d \in Calls, f \in Entries : Runs(d, f)' <=> Runs(d, f) /\ f # e
  BY <1>1 DEF Runs, Awaits, At
<1>3. \A f \in Entries : f # e => (status'[f] = "pending" <=> status[f] = "pending")
  BY DEF WellBound
<1>4. \A d \in Calls : At(d, "await")' => status'[call'[d].entry] = "pending"
  <2>1. \A d \in Calls : At(d, "await")' =>
          /\ call'[d] = call[d] /\ At(d, "await") /\ call[d].entry # e
    BY DEF Awaits, At
  <2>2. \A d \in Calls : At(d, "await") => call[d].entry \in Entries
    BY DEF WellBound, Acting, At
  <2> QED
    BY <2>1, <2>2, <1>3 DEF WellBound
<1>5. SingleFlight'
  <2>1. status'[e] # "pending"
    OBVIOUS
  <2> QED
    BY <2>1, <1>2, <1>3, <1>4 DEF WellBound
<1>6. HookHolds'
  BY <1>1 DEF WellBound
<1> QED
  BY <1>5, <1>6

LEMMA SucceedsFlight ==
  ASSUME WellBound, NEW c \in Calls, AcquireSucceeds(c)
  PROVE  SingleFlight' /\ HookHolds'
<1> DEFINE e == call[c].entry
<1>1. e \in Entries /\ Runs(c, e) /\ call[c].pc = "acquire"
  BY DEF AcquireSucceeds, WellBound, Acting, At, Runs
<1>2. status' = [f \in Entries |->
        IF f = e THEN "acquired" ELSE IF f \in {} THEN "idle" ELSE status[f]]
  BY <1>1 DEF AcquireSucceeds, WellBound, TypeOK
<1>3. \A d \in Calls :
        /\ call[d] \in CallRecord
        /\ d = c => call'[d] = [call[d] EXCEPT !.pc = "hook"]
        /\ d # c /\ Awaits(d, e) => call'[d] = [call[d] EXCEPT !.pc = "granted"]
        /\ d # c /\ ~Awaits(d, e) => call'[d] = call[d]
  BY DEF AcquireSucceeds, WellBound, TypeOK, CallRecord
<1>4. \A d \in Calls : d = c \/ Awaits(d, e) =>
        ~At(d, "await")' /\ \A f \in Entries : ~Runs(d, f)'
  BY <1>3 DEF At, Runs, CallRecord
<1>5. \A d \in Calls, f \in Entries : Engaged(d, f)' =>
        (d = c /\ f = e) \/ Engaged(d, f)
  <2>1. \A d \in Calls :
          /\ call'[d].entry = call[d].entry /\ call'[d].outer = call[d].outer
          /\ d # c /\ call'[d].pc \in {"hook", "seeded"} => call'[d].pc = call[d].pc
    BY <1>3 DEF CallRecord
  <2> QED
    BY <2>1 DEF Engaged, InHook, At
<1>6. \A d \in Calls : d # c /\ ~Awaits(d, e) => call'[d] = call[d]
  BY <1>3
<1> DEFINE none == {}
<1>7. /\ status' = [f \in Entries |->
           IF f = e THEN "acquired" ELSE IF f \in none THEN "idle" ELSE status[f]]
      /\ \A f \in none \ {e} : \E d \in Calls : Engaged(d, f)
      /\ \A d \in Calls, f \in Entries : Engaged(d, f)' =>
           (d = c /\ f = e /\ "acquired" = "acquired") \/ (Engaged(d, f) /\ f \notin none)
  BY <1>2, <1>5
<1> HIDE DEF e, none
<1> QED
  BY <1>1, <1>4, <1>6, <1>7, AcquireEnds

LEMMA FailsFlight ==
  ASSUME WellBound, NEW c \in Calls, AcquireFails(c)
  PROVE  SingleFlight' /\ HookHolds'
<1> DEFINE e == call[c].entry
<1>1. e \in Entries /\ Runs(c, e) /\ call[c].pc = "acquire"
  BY DEF AcquireFails, WellBound, Acting, At, Runs
<1>2. status' = [f \in Entries |->
        IF f = e THEN "idle" ELSE IF f \in {} THEN "idle" ELSE status[f]]
  BY <1>1 DEF AcquireFails, WellBound, TypeOK
<1>3. \A d \in Calls :
        call'[d] = IF d = c \/ Awaits(d, e) THEN Resumed(call[d]) ELSE call[d]
  BY DEF AcquireFails
<1>4. \A d \in Calls : d = c \/ Awaits(d, e) =>
        ~At(d, "await")' /\ \A f \in Entries : ~Runs(d, f)'
  BY <1>3, ResumedQuietly DEF WellBound
<1>5. \A d \in Calls, f \in Entries : Engaged(d, f)' => Engaged(d, f)
  <2>1. \A d \in Calls, f \in Entries : d = c \/ Awaits(d, e) => (Engaged(d, f)' => Engaged(d, f))
    BY <1>3, ResumedQuietly DEF WellBound
  <2>2. \A d \in Calls, f \in Entries :
          ~(d = c \/ Awaits(d, e)) => (Engaged(d, f)' => Engaged(d, f))
    BY <1>3 DEF Engaged, InHook, At
  <2> QED
    BY <2>1, <2>2
<1>6. \A d \in Calls : d # c /\ ~Awaits(d, e) => call'[d] = call[d]
  BY <1>3
<1> DEFINE none == {}
<1>7. /\ status' = [f \in Entries |->
           IF f = e THEN "idle" ELSE IF f \in none THEN "idle" ELSE status[f]]
      /\ \A f \in none \ {e} : \E d \in Calls : Engaged(d, f)
      /\ \A d \in Calls, f \in Entries : Engaged(d, f)' =>
           (d = c /\ f = e /\ "idle" = "acquired") \/ (Engaged(d, f) /\ f \notin none)
  BY <1>2, <1>5
<1> HIDE DEF e, none
<1> QED
  BY <1>1, <1>4, <1>6, <1>7, AcquireEnds

LEMMA DiesFlight ==
  ASSUME WellBound, NEW c \in Calls, At(c, "acquire"), Dies(c)
  PROVE  SingleFlight' /\ HookHolds'
<1> DEFINE e == call[c].entry
           dying == {d \in Calls : d = c \/ Awaits(d, e)}
           taken == {f \in Entries : \E d \in dying : call[d].outer = f}
<1>1. e \in Entries /\ Runs(c, e) /\ call[c].pc = "acquire"
  BY DEF Dies, WellBound, Acting, At, Runs
<1>2. status' = [f \in Entries |->
        IF f = e THEN "idle" ELSE IF f \in taken THEN "idle" ELSE status[f]]
  <2>1. \A f \in Entries :
          f \in {e} \cup UNION {Dropped(call[d].outer) : d \in dying} <=> f = e \/ f \in taken
    BY DEF Dropped
  <2> QED
    BY <2>1 DEF Dies
<1>3. \A d \in Calls : call'[d] = IF d = c \/ Awaits(d, e) THEN Idle ELSE call[d]
  BY DEF Dies
<1>4. \A d \in Calls : d = c \/ Awaits(d, e) =>
        ~At(d, "await")' /\ \A f \in Entries : ~Runs(d, f)' /\ ~Engaged(d, f)'
  BY <1>3 DEF At, Runs, Engaged, InHook, Idle
<1>5. \A f \in taken : \E d \in dying : Engaged(d, f)
  BY DEF Engaged
<1>6. \A d \in Calls, f \in Entries : Engaged(d, f)' => Engaged(d, f) /\ f \notin taken
  <2>1. \A d \in Calls, f \in Entries : Engaged(d, f)' => d \notin dying /\ Engaged(d, f)
    BY <1>3, <1>4 DEF Engaged, InHook, At
  <2> QED
    BY <2>1, <1>5 DEF WellBound
<1> HIDE DEF e, taken
<1>7. dying \subseteq Calls
  OBVIOUS
<1> HIDE DEF dying
<1>8. \A f \in taken \ {e} : \E d \in Calls : Engaged(d, f)
  BY <1>5, <1>7
<1> QED
  BY <1>1, <1>2, <1>3, <1>4, <1>6, <1>8, AcquireEnds

\* A dying hook drops only bindings its own call is engaged in.
LEMMA HookDiesFlight ==
  ASSUME WellBound, NEW c \in Calls, HookDies(c)
  PROVE  SingleFlight' /\ HookHolds'
<1>1. \A f \in Entries : f \in {call[c].entry, call[c].outer} <=> Engaged(c, f)
  BY DEF HookDies, Engaged
<1>2. \A f \in Entries : status'[f] = IF Engaged(c, f) THEN "idle" ELSE status[f]
  BY <1>1 DEF HookDies
<1>3. \A d \in Calls : call'[d] = IF d = c THEN Idle ELSE call[d]
  BY DEF HookDies, WellBound, TypeOK
<1>4. \A d \in Calls, f \in Entries : Runs(d, f)' <=> Runs(d, f)
  BY <1>3 DEF Runs, Idle, HookDies, InHook, At
<1>5. \A d \in Calls, f \in Entries : Engaged(d, f)' => d # c /\ Engaged(d, f)
  BY <1>3 DEF Engaged, Idle, InHook, At
<1>6. \A f \in Entries : status'[f] = "pending" <=> status[f] = "pending"
  BY <1>2 DEF WellBound
<1>7. \A d \in Calls : At(d, "await")' => status'[call'[d].entry] = "pending"
  <2>1. \A d \in Calls : At(d, "await")' => At(d, "await") /\ call'[d] = call[d]
    BY <1>3 DEF At, Idle
  <2>2. \A d \in Calls : At(d, "await") => call[d].entry \in Entries
    BY DEF WellBound, Acting, At
  <2> QED
    BY <2>1, <2>2, <1>6 DEF WellBound
<1>8. SingleFlight'
  BY <1>4, <1>6, <1>7 DEF WellBound
<1>9. HookHolds'
  <2>1. \A d \in Calls, f \in Entries : Engaged(d, f)' => status'[f] = "acquired"
    BY <1>2, <1>5 DEF WellBound
  <2> QED
    BY <2>1, <1>5 DEF WellBound
<1> QED
  BY <1>8, <1>9

LEMMA StepFlight == ASSUME WellBound, Next PROVE SingleFlight' /\ HookHolds'
<1>1. ASSUME NEW s \in Sessions, Peek(s) PROVE SingleFlight' /\ HookHolds'
  BY <1>1 DEF Peek, WellBound, Runs, At, Engaged, InHook
<1>2. ASSUME NEW c \in Calls, NEW s \in Sessions, StartCall(c, s)
      PROVE  SingleFlight' /\ HookHolds'
  <2>1. PICK e \in Entries : call' = [call EXCEPT ![c] = Binding(s, e, NoEntry)]
    BY <1>2 DEF StartCall
  <2>2. status' = status /\ \A f \in Entries : ~Runs(c, f) /\ NoEntry # f
    BY <1>2 DEF StartCall, Runs, At
  <2> QED
    BY <2>1, <2>2, BindingFlight
<1>3. ASSUME NEW c \in Calls, HaveIdentity(c) \/ HookReturns(c) \/ WokenWrites(c)
      PROVE  SingleFlight' /\ HookHolds'
  <2>1. WriteOut(c) /\ status' = status /\ \A f \in Entries : ~Runs(c, f)
    BY <1>3 DEF HaveIdentity, HookReturns, WokenWrites, InHook, At, Runs
  <2> QED
    BY <2>1, WriteFlight
<1>4. ASSUME NEW c \in Calls, AwaitAcquire(c) PROVE SingleFlight' /\ HookHolds'
  <2>1. /\ call'[c] = [call[c] EXCEPT !.pc = "await"] /\ call[c] \in CallRecord
        /\ \A d \in Calls : d # c => call'[d] = call[d]
    BY <1>4 DEF AwaitAcquire, Goes, WellBound, TypeOK, CallRecord
  <2>2. status' = status /\ call[c].pc = "bind" /\ status[call[c].entry] = "pending"
    BY <1>4 DEF AwaitAcquire, At
  <2>3. \A e \in Entries : ~Runs(c, e) /\ ~Runs(c, e)' /\ (Engaged(c, e)' => Engaged(c, e))
    BY <2>1, <2>2 DEF Runs, Engaged, InHook, At, CallRecord
  <2>4. call'[c].entry = call[c].entry
    BY <2>1 DEF CallRecord
  <2>5. At(c, "await")' => status[call'[c].entry] = "pending"
    BY <2>2, <2>4
  <2>6. \A d \in Calls : d # c => call'[d] = call[d]
    BY <2>1
  <2>7. status' = status /\ SingleFlight /\ HookHolds
    BY <2>2 DEF WellBound
  <2> QED
    BY <2>3, <2>5, <2>6, <2>7, QuietCall
<1>5. ASSUME NEW c \in Calls, ReleasePrior(c) PROVE SingleFlight' /\ HookHolds'
  <2>1. /\ call'[c] = [call[c] EXCEPT !.pc = "acquire"] /\ call[c] \in CallRecord
        /\ \A d \in Calls : d # c => call'[d] = call[d]
        /\ call[c].pc = "release" /\ status' = status
    BY <1>5 DEF ReleasePrior, Goes, At, WellBound, TypeOK, CallRecord
  <2>2. \A d \in Calls, e \in Entries : Runs(d, e)' <=> Runs(d, e)
    BY <2>1 DEF Runs, CallRecord
  <2>3. \A d \in Calls, e \in Entries : Engaged(d, e)' <=> Engaged(d, e)
    BY <2>1 DEF Engaged, InHook, At, CallRecord
  <2>4. \A d \in Calls : At(d, "await")' => At(d, "await") /\ call'[d] = call[d]
    BY <2>1 DEF At, CallRecord
  <2> QED
    BY <2>1, <2>2, <2>3, <2>4 DEF WellBound
<1>6. ASSUME NEW c \in Calls, HookReenters(c) PROVE SingleFlight' /\ HookHolds'
  <2>1. PICK e \in Entries :
          call' = [call EXCEPT ![c] = Binding(call[c].sid, e, call[c].entry)]
    BY <1>6 DEF HookReenters
  <2>2. status' = status /\ \A f \in Entries : ~Runs(c, f) /\ (call[c].entry = f => Engaged(c, f))
    BY <1>6 DEF HookReenters, Runs, Engaged, InHook, At
  <2> QED
    BY <2>1, <2>2, BindingFlight
<1> QED
  BY <1>1, <1>2, <1>3, <1>4, <1>5, <1>6, RunFlight, SucceedsFlight, FailsFlight,
     DiesFlight, HookDiesFlight
  DEF Next, Advance, AcquireDies

-----------------------------------------------------------------------------
LEMMA InitWellBound == Init => WellBound
<1>1. 0 \in 0 .. 0 /\ 0 \in 0 .. MaxEntries
  BY BindingAssumption DEF BindingAssumption
<1>2. Idle \in CallRecord
  BY CallTypes
<1>3. Init => TypeOK
  BY <1>1, <1>2 DEF Init, TypeOK, CallRecord
<1>4. Init => Acting
  BY DEF Init, Acting, At, Idle
<1>5. Init => SingleFlight /\ HookHolds
  BY BindingAssumption DEF BindingAssumption, Init, Runs, At, Engaged, InHook, Idle
<1> QED
  BY <1>3, <1>4, <1>5 DEF WellBound

LEMMA StepWellBound == WellBound /\ [Next]_vars => WellBound'
<1>1. ASSUME WellBound, Next PROVE WellBound'
  BY <1>1, StepTypes, StepFlight DEF WellBound
<1>2. ASSUME WellBound, UNCHANGED vars PROVE WellBound'
  BY <1>2, TypeKept DEF WellBound, vars, Runs, At, Engaged, InHook
<1> QED
  BY <1>1, <1>2

\* The seat's binding state stays within its types, whatever sessions come.
THEOREM TypeCorrect == Spec => []TypeOK
<1>1. WellBound => TypeOK
  BY DEF WellBound
<1> QED
  BY <1>1, InitWellBound, StepWellBound, PTL DEF Spec

\* Concurrent first calls share one acquire: no EnsureBound has two in flight,
\* a pending one is being run, and nobody waits on one that is not.
THEOREM BindingIsSingleFlight == Spec => []SingleFlight
<1>1. WellBound => SingleFlight
  BY DEF WellBound
<1> QED
  BY <1>1, InitWellBound, StepWellBound, PTL DEF Spec

-----------------------------------------------------------------------------
(* Uncrossed calls.  Calls of different sessions can each find the other's   *)
(* bot bound; what follows is about the steps up to the first two calls that *)
(* are under way in different EnsureBounds.  Calls that share one, and the   *)
(* lookups that move the slot on under them, are as many as there may be.    *)

\* The cache: every EnsureBound was minted for another session than the one it
\* displaced, the slot holds the last, and none is under way before it is minted.
MintedInTurn ==
  /\ slot = minted
  /\ \A e \in Entries : e > minted => status[e] = "idle"
  /\ \A e \in 1 .. minted : prior[e] = e - 1 /\ owner[e] \in Sessions
  /\ \A e \in 2 .. minted : owner[e] # owner[e - 1]

Seeking(c) == call[c].pc \in {"bind", "release", "acquire"}
Reenters(c) == call[c].outer # NoEntry
Busy(c) == ~At(c, "free")

\* Calls under way at once share their EnsureBound; a hook that passes the seam
\* again meanwhile finds the one it runs in.
Together ==
  \A c, d \in Calls : c # d /\ Busy(c) /\ Busy(d) =>
    call[c].entry = call[d].entry /\ call[c].outer \in {NoEntry, call[c].entry}

\* The call runs an EnsureBound of its own session; those minted since, for
\* lookups, are idle; once its hook runs its session's bot is bound, and stays
\* so when the hook passes the seam again, which finds nothing to release.  A
\* call that was woken finds its session's bot, or none.
Acts(c) ==
  /\ call[c].entry \in 1 .. minted /\ owner[call[c].entry] = call[c].sid
  /\ Reenters(c) => call[c].outer \in 1 .. call[c].entry /\ owner[call[c].outer] = call[c].sid
  /\ Seeking(c) \/ (At(c, "hook") /\ ~Reenters(c)) =>
       \A f \in Entries : f > call[c].entry => status[f] = "idle"
  /\ Reenters(c) /\ Seeking(c) /\ call[c].entry # call[c].outer =>
       /\ call[c].entry > call[c].outer + 1
       /\ \A f \in Entries : call[c].outer < f /\ f < call[c].entry => status[f] = "idle"
  /\ At(c, "release") \/ At(c, "await") => ~Reenters(c)
  /\ InHook(c) \/ Reenters(c) => bound = call[c].sid
  /\ At(c, "bind") /\ status[call[c].entry] = "acquired" => bound = call[c].sid
  /\ At(c, "granted") => bound \in {NoSession, call[c].sid}

Uncrossed ==
  /\ MintedInTurn /\ CacheTellsTruth /\ OwnName /\ Together
  /\ \A c \in Calls : Busy(c) => Acts(c)

WellKept == WellBound /\ (crossed \/ Uncrossed)

\* A call that a step leaves where it is goes on as it did, when the step
\* begins no other EnsureBound and leaves its session's bot to it.
LEMMA StaysActing ==
  ASSUME WellBound, NEW d \in Calls, Acts(d), call'[d] = call[d],
         \A f \in 1 .. minted : f \in 1 .. minted' /\ owner'[f] = owner[f],
         \A f \in Entries : f # call[d].entry /\ status[f] = "idle" => status'[f] = "idle",
         InHook(d) \/ Reenters(d) => bound' = call[d].sid,
         At(d, "bind") /\ status'[call[d].entry] = "acquired" => bound' = call[d].sid,
         At(d, "granted") => bound' \in {NoSession, call[d].sid}
  PROVE  Acts(d)'
<1>1. minted \in 0 .. MaxEntries /\ MaxEntries \in Nat
  BY BindingAssumption DEF BindingAssumption, WellBound, TypeOK
<1>2. call[d].entry \in 1 .. minted /\ (Reenters(d) => call[d].outer \in 1 .. minted)
  BY <1>1 DEF Acts
<1>3. \A f \in Entries : f > call[d].entry \/ f < call[d].entry => f # call[d].entry
  BY <1>1, <1>2
<1>4. /\ call'[d].entry \in 1 .. minted' /\ owner'[call'[d].entry] = call'[d].sid
      /\ Reenters(d)' => call'[d].outer \in 1 .. call'[d].entry /\ owner'[call'[d].outer] = call'[d].sid
  BY <1>2 DEF Acts, Reenters
<1>5. /\ Seeking(d)' \/ (At(d, "hook")' /\ ~Reenters(d)') =>
           \A f \in Entries : f > call'[d].entry => status'[f] = "idle"
      /\ Reenters(d)' /\ Seeking(d)' /\ call'[d].entry # call'[d].outer =>
           /\ call'[d].entry > call'[d].outer + 1
           /\ \A f \in Entries : call'[d].outer < f /\ f < call'[d].entry => status'[f] = "idle"
  BY <1>3 DEF Acts, Reenters, Seeking, At
<1>6. /\ At(d, "release")' \/ At(d, "await")' => ~Reenters(d)'
      /\ InHook(d)' \/ Reenters(d)' => bound' = call'[d].sid
      /\ At(d, "bind")' /\ status'[call'[d].entry] = "acquired" => bound' = call'[d].sid
      /\ At(d, "granted")' => bound' \in {NoSession, call'[d].sid}
  BY DEF Acts, Reenters, At, InHook
<1> QED
  BY <1>4, <1>5, <1>6 DEF Acts

\* A step that moves one call, neither to another EnsureBound, and changes
\* neither the cache nor which bot is bound.
LEMMA StillTogether ==
  ASSUME Together, NEW c \in Calls, Busy(c),
         \A d \in Calls : d # c => call'[d] = call[d],
         \/ call'[c].pc = "free"
         \/ call'[c].entry = call[c].entry /\ call'[c].outer = call[c].outer
         \/ call'[c].entry = call[c].outer /\ call'[c].outer = NoEntry /\ Reenters(c)
  PROVE  Together'
<1> SUFFICES ASSUME NEW a \in Calls, NEW b \in Calls, a # b, Busy(a)', Busy(b)'
             PROVE  call'[a].entry = call'[b].entry /\ call'[a].outer \in {NoEntry, call'[a].entry}
  BY DEF Together
<1>1. Busy(a) /\ Busy(b)
  BY DEF Busy, At
<1>2. /\ call[a].entry = call[b].entry
      /\ call[a].outer \in {NoEntry, call[a].entry} /\ call[b].outer \in {NoEntry, call[b].entry}
  BY <1>1 DEF Together
<1>3. CASE a = c
  BY <1>2, <1>3 DEF Busy, At, Reenters
<1>4. CASE b = c
  BY <1>2, <1>4 DEF Busy, At, Reenters
<1> QED
  BY <1>2, <1>3, <1>4

\* What asking the cache for the EnsureBound of `s` leaves.
LEMMA CacheAsked ==
  ASSUME WellBound, MintedInTurn, CacheTellsTruth, NEW s \in Sessions, NEW e \in Entries,
         EnsureBoundFor(s, e), status' = status, bound' = bound
  PROVE  /\ MintedInTurn' /\ CacheTellsTruth'
         /\ e = minted' /\ slot' = e /\ owner'[e] = s
         /\ \A f \in 1 .. minted : f \in 1 .. minted' /\ owner'[f] = owner[f]
         /\ \A f \in Entries : f > e => status[f] = "idle"
         /\ status[e] = "acquired" => bound = s
         /\ e = minted \/ (e = minted + 1 /\ status[e] = "idle")
         /\ minted \in 1 .. MaxEntries /\ owner[minted] = s => e = minted
<1>1. /\ minted \in 0 .. MaxEntries /\ slot = minted /\ MaxEntries \in Nat
      /\ owner \in [Entries -> Sessions \cup {NoSession}]
      /\ prior \in [Entries -> 0 .. MaxEntries]
  BY BindingAssumption DEF BindingAssumption, WellBound, TypeOK, MintedInTurn
<1>2. CASE SlotIsOf(s) /\ e = slot /\ UNCHANGED cache
  BY <1>1, <1>2 DEF SlotIsOf, cache, MintedInTurn, CacheTellsTruth, Current
<1>3. CASE /\ ~SlotIsOf(s)
           /\ minted < MaxEntries /\ e = minted + 1
           /\ minted' = e /\ slot' = e
           /\ owner' = [owner EXCEPT ![e] = s]
           /\ prior' = [prior EXCEPT ![e] = slot]
  <2>1. /\ \A f \in Entries : f # e => owner'[f] = owner[f] /\ prior'[f] = prior[f]
        /\ owner'[e] = s /\ prior'[e] = e - 1
    BY <1>1, <1>3
  <2>2. 1 .. minted' \subseteq Entries /\ 1 .. minted \subseteq 1 .. minted'
    BY <1>1, <1>3
  <2>3. \A f \in 1 .. minted' : f = e \/ f \in 1 .. minted
    BY <1>1, <1>3
  <2>4. \A f \in 1 .. minted : f # e
    BY <1>1, <1>3
  <2>5. status[e] = "idle"
    BY <1>1, <1>3 DEF MintedInTurn
  <2>6. \A f \in 2 .. minted' : owner'[f] # owner'[f - 1]
    <3> SUFFICES ASSUME NEW f \in 2 .. minted' PROVE owner'[f] # owner'[f - 1]
      OBVIOUS
    <3>1. f \in 1 .. minted' /\ f - 1 \in 1 .. minted /\ f - 1 # e
      BY <1>1, <1>3
    <3>2. owner'[f - 1] = owner[f - 1]
      BY <3>1, <2>1, <2>2
    <3>3. CASE f = e
      BY <3>3, <3>1, <3>2, <2>1, <1>1, <1>3 DEF SlotIsOf
    <3>4. CASE f \in 1 .. minted
      <4>1. f \in 2 .. minted /\ owner'[f] = owner[f]
        BY <3>4, <2>1, <2>2, <2>4
      <4> QED
        BY <4>1, <3>2 DEF MintedInTurn
    <3> QED
      BY <3>1, <3>3, <3>4, <2>3
  <2>7. MintedInTurn'
    <3>1. \A f \in 1 .. minted' : prior'[f] = f - 1 /\ owner'[f] \in Sessions
      BY <2>1, <2>2, <2>3, <2>4 DEF MintedInTurn
    <3>2. \A f \in Entries : f > minted' => status'[f] = "idle"
      BY <1>1, <1>3 DEF MintedInTurn
    <3> QED
      BY <1>3, <2>6, <3>1, <3>2 DEF MintedInTurn
  <2>8. CacheTellsTruth' /\ (minted \in 1 .. MaxEntries => owner[minted] # s)
    BY <1>1, <1>3, <2>5 DEF CacheTellsTruth, Current, SlotIsOf
  <2>9. \A f \in Entries : f > e => status[f] = "idle"
    BY <1>1, <1>3 DEF MintedInTurn
  <2> QED
    BY <1>3, <2>1, <2>2, <2>4, <2>5, <2>7, <2>8, <2>9
<1> QED
  BY <1>2, <1>3 DEF EnsureBoundFor

\* A lookup moves the slot on and leaves the calls in peace.
LEMMA PeekKept ==
  ASSUME WellBound, Uncrossed, NEW s \in Sessions, Peek(s)
  PROVE  Uncrossed'
<1>1. PICK e \in Entries : EnsureBoundFor(s, e)
  BY DEF Peek
<1>2. UNCHANGED <<status, bound, call, sent>>
  BY DEF Peek
<1>3. /\ MintedInTurn' /\ CacheTellsTruth'
      /\ \A f \in 1 .. minted : f \in 1 .. minted' /\ owner'[f] = owner[f]
  BY <1>1, <1>2, CacheAsked DEF Uncrossed
<1>4. ASSUME NEW d \in Calls, Busy(d)' PROVE Acts(d)'
  <2>1. Acts(d)
    BY <1>2, <1>4 DEF Uncrossed, Busy, At
  <2>2. /\ InHook(d) \/ Reenters(d) => bound' = call[d].sid
        /\ At(d, "bind") /\ status'[call[d].entry] = "acquired" => bound' = call[d].sid
        /\ At(d, "granted") => bound' \in {NoSession, call[d].sid}
    BY <1>2, <2>1 DEF Acts
  <2> QED
    BY <1>2, <1>3, <2>1, <2>2, StaysActing
<1> QED
  BY <1>2, <1>3, <1>4 DEF Uncrossed, OwnName, Together, Busy, At

\* A call that begins finds the others in its EnsureBound, or none under way.
LEMMA StartKept ==
  ASSUME WellBound, Uncrossed, NEW c \in Calls, NEW s \in Sessions, StartCall(c, s), ~crossed'
  PROVE  Uncrossed'
<1>1. PICK e \in Entries :
        /\ EnsureBoundFor(s, e) /\ call' = [call EXCEPT ![c] = Binding(s, e, NoEntry)]
        /\ crossed' = (crossed \/ Crosses(c, e))
  BY DEF StartCall
<1>2. UNCHANGED <<status, bound, sent>>
  BY DEF StartCall
<1>3. /\ MintedInTurn' /\ CacheTellsTruth'
      /\ e = minted' /\ owner'[e] = s
      /\ \A f \in 1 .. minted : f \in 1 .. minted' /\ owner'[f] = owner[f]
      /\ \A f \in Entries : f > e => status[f] = "idle"
      /\ status[e] = "acquired" => bound = s
  BY <1>1, <1>2, CacheAsked DEF Uncrossed
<1>4. /\ call'[c] = Binding(s, e, NoEntry)
      /\ \A d \in Calls : d # c => call'[d] = call[d]
  BY <1>1 DEF WellBound, TypeOK
<1>5. Acts(c)'
  <2>1. e \in 1 .. minted'
    BY <1>3
  <2> QED
    BY <1>2, <1>3, <1>4, <2>1 DEF Acts, Seeking, Reenters, At, InHook, Binding
<1>6. ASSUME NEW d \in Calls, d # c, Busy(d)' PROVE Acts(d)'
  <2>1. Acts(d) /\ call'[d] = call[d]
    BY <1>4, <1>6 DEF Uncrossed, Busy, At
  <2>2. /\ InHook(d) \/ Reenters(d) => bound' = call[d].sid
        /\ At(d, "bind") /\ status'[call[d].entry] = "acquired" => bound' = call[d].sid
        /\ At(d, "granted") => bound' \in {NoSession, call[d].sid}
    BY <1>2, <2>1 DEF Acts
  <2> QED
    BY <1>2, <1>3, <2>1, <2>2, StaysActing
<1>7. Together'
  <2>1. \A d \in Calls : d # c /\ Busy(d) => call[d].entry = e /\ call[d].outer \in {NoEntry, e}
    BY <1>1 DEF Crosses, Busy
  <2>2. call'[c].entry = e /\ call'[c].outer = NoEntry
    BY <1>4 DEF Binding
  <2> QED
    BY <1>4, <2>1, <2>2 DEF Together, Uncrossed, Busy, At
<1> QED
  BY <1>2, <1>3, <1>5, <1>6, <1>7 DEF Uncrossed, OwnName

\* A hook that passes the seam again finds its own EnsureBound, or one minted
\* after another session's, which is idle.
LEMMA ReenterKept ==
  ASSUME WellBound, Uncrossed, NEW c \in Calls, HookReenters(c), ~crossed'
  PROVE  Uncrossed'
<1> DEFINE s == call[c].sid
           o == call[c].entry
<1>1. PICK e \in Entries :
        /\ EnsureBoundFor(s, e) /\ call' = [call EXCEPT ![c] = Binding(s, e, o)]
        /\ crossed' = (crossed \/ Crosses(c, e))
  BY DEF HookReenters
<1>2. Acts(c) /\ s \in Sessions /\ UNCHANGED <<status, bound, sent>> /\ At(c, "hook") /\ ~Reenters(c) /\ Busy(c)
  BY DEF HookReenters, At, Busy, Uncrossed, WellBound, Acting, Reenters
<1>3. /\ MintedInTurn' /\ CacheTellsTruth'
      /\ e = minted' /\ owner'[e] = s
      /\ \A f \in 1 .. minted : f \in 1 .. minted' /\ owner'[f] = owner[f]
      /\ \A f \in Entries : f > e => status[f] = "idle"
      /\ e = minted \/ e = minted + 1
      /\ minted \in 1 .. MaxEntries /\ owner[minted] = s => e = minted
  BY <1>1, <1>2, CacheAsked DEF Uncrossed
<1>4. call'[c] = Binding(s, e, o) /\ \A d \in Calls : d # c => call'[d] = call[d]
  BY <1>1 DEF WellBound, TypeOK
<1>5. /\ o \in 1 .. minted /\ owner[o] = s /\ bound = s /\ minted \in 0 .. MaxEntries
      /\ \A f \in Entries : f > o => status[f] = "idle"
  BY <1>2 DEF Acts, InHook, WellBound, TypeOK
<1>6. e # o => e > o + 1
  <2>1. CASE o = minted
    BY <2>1, <1>3, <1>5
  <2>2. CASE o # minted /\ e = minted + 1
    BY <2>2, <1>5
  <2>3. CASE o # minted /\ e = minted
    <3>1. o + 1 # minted
      <4>1. o + 1 = minted => minted \in 2 .. minted /\ owner[minted] # owner[minted - 1]
        BY <1>5 DEF Uncrossed, MintedInTurn
      <4>2. owner'[e] = owner[e] /\ owner[e] = s
        BY <2>3, <1>3, <1>5
      <4> QED
        BY <4>1, <4>2, <2>3, <1>5
    <3> QED
      BY <3>1, <2>3, <1>5
  <2> QED
    BY <2>1, <2>2, <2>3, <1>3
<1>7. o \in 1 .. e /\ e \in 1 .. minted' /\ owner'[o] = s
  BY <1>3, <1>5
<1>8. Together'
  <2>1. \A d \in Calls : d # c /\ Busy(d) => /\ call[d].entry = e /\ call[d].outer \in {NoEntry, e}
                                             /\ call[d].entry = o
    BY <1>1, <1>2 DEF Crosses, Busy, Together, Uncrossed
  <2>2. call'[c].entry = e /\ call'[c].outer = o
    BY <1>4 DEF Binding
  <2> HIDE DEF o
  <2> QED
    BY <1>4, <2>1, <2>2 DEF Together, Uncrossed, Busy, At
<1> HIDE DEF s, o
<1>9. /\ call'[c].pc = "bind" /\ call'[c].sid = s /\ call'[c].entry = e /\ call'[c].outer = o
  BY <1>4 DEF Binding
<1>10. Acts(c)'
  BY <1>2, <1>3, <1>5, <1>6, <1>7, <1>9 DEF Acts, Seeking, Reenters, At, InHook
<1>11. ASSUME NEW d \in Calls, d # c, Busy(d)' PROVE Acts(d)'
  <2>1. Acts(d) /\ call'[d] = call[d]
    BY <1>4, <1>11 DEF Uncrossed, Busy, At
  <2>2. /\ InHook(d) \/ Reenters(d) => bound' = call[d].sid
        /\ At(d, "bind") /\ status'[call[d].entry] = "acquired" => bound' = call[d].sid
        /\ At(d, "granted") => bound' \in {NoSession, call[d].sid}
    BY <1>2, <2>1 DEF Acts
  <2> QED
    BY <1>2, <1>3, <2>1, <2>2, StaysActing
<1> QED
  BY <1>2, <1>3, <1>8, <1>10, <1>11 DEF Uncrossed, OwnName

\* The write that ends a bind goes out under the bot of its session, if at all.
LEMMA WriteKept ==
  ASSUME WellBound, Uncrossed, NEW c \in Calls,
         HaveIdentity(c) \/ HookReturns(c) \/ WokenWrites(c)
  PROVE  Uncrossed'
<1>1. Busy(c) /\ Acts(c) /\ WriteOut(c) /\ UNCHANGED <<cache, status, bound>>
  BY DEF HaveIdentity, HookReturns, WokenWrites, InHook, At, Uncrossed, Busy
<1>2. bound \in {NoSession, call[c].sid} /\ (Reenters(c) => bound = call[c].sid)
  BY <1>1 DEF HaveIdentity, HookReturns, WokenWrites, Acts
<1>3. OwnName'
  BY <1>1, <1>2 DEF WriteOut, OwnName, Uncrossed
<1>4. /\ call'[c] = Resumed(call[c]) /\ call[c] \in CallRecord
      /\ \A d \in Calls : d # c => call'[d] = call[d]
  BY <1>1 DEF WriteOut, WellBound, TypeOK, CallRecord
<1>5. Reenters(c) =>
        /\ call'[c].pc = "seeded" /\ call'[c].sid = call[c].sid
        /\ call'[c].entry = call[c].outer /\ call'[c].outer = NoEntry
  BY <1>4, ResumedCalls DEF Reenters
<1>6. ~Reenters(c) => call'[c].pc = "free"
  BY <1>4, ResumedCalls DEF Reenters
<1>7. Together'
  BY <1>1, <1>4, <1>5, <1>6, StillTogether DEF Uncrossed
<1>8. Busy(c)' => Acts(c)'
  <2> SUFFICES ASSUME Reenters(c) PROVE Acts(c)'
    BY <1>6 DEF Busy, At
  <2>1. call[c].outer \in 1 .. minted /\ owner[call[c].outer] = call[c].sid
    BY <1>1 DEF Acts, WellBound, TypeOK
  <2> QED
    BY <1>1, <1>2, <1>5, <2>1 DEF Acts, Seeking, Reenters, At, InHook, cache
<1>9. ASSUME NEW d \in Calls, d # c, Busy(d)' PROVE Acts(d)'
  <2>1. Acts(d) /\ call'[d] = call[d]
    BY <1>4, <1>9 DEF Uncrossed, Busy, At
  <2>2. /\ InHook(d) \/ Reenters(d) => bound' = call[d].sid
        /\ At(d, "bind") /\ status'[call[d].entry] = "acquired" => bound' = call[d].sid
        /\ At(d, "granted") => bound' \in {NoSession, call[d].sid}
    BY <1>1, <2>1 DEF Acts
  <2>3. \A f \in 1 .. minted : f \in 1 .. minted' /\ owner'[f] = owner[f]
    BY <1>1 DEF cache
  <2> QED
    BY <1>1, <2>1, <2>2, <2>3, StaysActing
<1>10. MintedInTurn' /\ CacheTellsTruth'
  BY <1>1 DEF Uncrossed, MintedInTurn, CacheTellsTruth, Current, cache
<1> QED
  BY <1>3, <1>7, <1>8, <1>9, <1>10 DEF Uncrossed

\* While a call acquires, the slot reads nothing acquired.
LEMMA SlotIdle ==
  ASSUME WellBound, Uncrossed, NEW c \in Calls, At(c, "release") \/ At(c, "acquire")
  PROVE  ~Current(slot) /\ status[call[c].entry] = "pending"
<1>1. Acts(c) /\ call[c].entry \in Entries /\ slot = minted /\ minted \in 0 .. MaxEntries
  BY DEF Uncrossed, Busy, At, WellBound, Acting, TypeOK, MintedInTurn
<1>2. status[call[c].entry] = "pending"
  BY <1>1 DEF WellBound, Runs, At
<1>3. slot \in Entries /\ slot # call[c].entry => status[slot] = "idle"
  BY <1>1 DEF Acts, Seeking, At
<1> QED
  BY <1>2, <1>3 DEF Current

\* While a call acquires or finds its EnsureBound not acquired, no call that is
\* under way with it is in a hook.
LEMMA NoHookBeside ==
  ASSUME WellBound, Uncrossed, NEW c \in Calls, Busy(c), status[call[c].entry] # "acquired",
         NEW d \in Calls, d # c, Busy(d)
  PROVE  call[d].entry = call[c].entry /\ ~InHook(d) /\ ~Reenters(d)
<1>1. /\ call[d].entry = call[c].entry /\ call[d].outer \in {NoEntry, call[c].entry}
      /\ call[c].entry \in Entries
  BY DEF Uncrossed, Together, WellBound, Acting, Busy, At
<1>2. ~Engaged(d, call[c].entry)
  BY <1>1 DEF WellBound
<1> QED
  BY <1>1, <1>2 DEF Engaged, Reenters

\* A call that waits is in no hook: one that is would wait for itself.
LEMMA AwaitKept ==
  ASSUME WellBound, Uncrossed, NEW c \in Calls, AwaitAcquire(c)
  PROVE  Uncrossed'
<1>1. Busy(c) /\ Acts(c) /\ UNCHANGED <<cache, status, bound, sent>> /\ call[c].entry \in Entries
  BY DEF AwaitAcquire, At, Busy, Uncrossed, WellBound, Acting
<1>2. /\ call'[c] = [call[c] EXCEPT !.pc = "await"] /\ call[c] \in CallRecord
      /\ \A d \in Calls : d # c => call'[d] = call[d]
  BY DEF AwaitAcquire, Goes, WellBound, TypeOK, CallRecord
<1>3. ~Reenters(c)
  <2>1. PICK d \in Calls : Runs(d, call[c].entry)
    BY <1>1 DEF AwaitAcquire, WellBound
  <2>2. d # c /\ Busy(d)
    BY <2>1 DEF Runs, AwaitAcquire, At, Busy
  <2>3. call[c].outer \in {NoEntry, call[c].entry}
    BY <1>1, <2>2 DEF Uncrossed, Together
  <2>4. ~Engaged(c, call[c].entry)
    BY <1>1 DEF AwaitAcquire, WellBound
  <2> QED
    BY <2>3, <2>4 DEF Reenters, Engaged
<1>4. /\ call'[c].pc = "await" /\ call'[c].sid = call[c].sid
      /\ call'[c].entry = call[c].entry /\ call'[c].outer = call[c].outer
  BY <1>2 DEF CallRecord
<1>5. Acts(c)'
  BY <1>1, <1>3, <1>4 DEF Acts, Seeking, Reenters, At, InHook, cache
<1>6. ASSUME NEW d \in Calls, d # c, Busy(d)' PROVE Acts(d)'
  <2>1. Acts(d) /\ call'[d] = call[d]
    BY <1>2, <1>6 DEF Uncrossed, Busy, At
  <2>2. /\ InHook(d) \/ Reenters(d) => bound' = call[d].sid
        /\ At(d, "bind") /\ status'[call[d].entry] = "acquired" => bound' = call[d].sid
        /\ At(d, "granted") => bound' \in {NoSession, call[d].sid}
    BY <1>1, <2>1 DEF Acts
  <2>3. \A f \in 1 .. minted : f \in 1 .. minted' /\ owner'[f] = owner[f]
    BY <1>1 DEF cache
  <2> QED
    BY <1>1, <2>1, <2>2, <2>3, StaysActing
<1>7. Together'
  BY <1>1, <1>2, <1>4, StillTogether DEF Uncrossed
<1> QED
  BY <1>1, <1>5, <1>6, <1>7
     DEF Uncrossed, MintedInTurn, CacheTellsTruth, Current, OwnName, cache

LEMMA RunKept ==
  ASSUME WellBound, Uncrossed, NEW c \in Calls, RunAcquire(c)
  PROVE  Uncrossed'
<1> DEFINE e == call[c].entry
           p == IF Current(prior[e]) THEN "release" ELSE "acquire"
<1>1. /\ Busy(c) /\ Acts(c) /\ e \in 1 .. minted /\ minted \in 0 .. MaxEntries /\ status[e] = "idle"
      /\ call[c] \in CallRecord /\ e \in Entries
  BY DEF RunAcquire, Uncrossed, Busy, At, Acts, WellBound, TypeOK, Acting, CallRecord
<1>2. /\ call'[c] = [call[c] EXCEPT !.pc = p] /\ status' = [status EXCEPT ![e] = "pending"]
      /\ UNCHANGED <<cache, bound, sent>> /\ \A d \in Calls : d # c => call'[d] = call[d]
  BY DEF RunAcquire, Goes, WellBound, TypeOK
<1>3. Reenters(c) => ~Current(prior[e])
  <2> SUFFICES ASSUME Reenters(c) PROVE ~Current(prior[e])
    OBVIOUS
  <2>1. call[c].outer \in Entries /\ status[call[c].outer] = "acquired"
    BY <1>1, BindingAssumption
       DEF BindingAssumption, Acts, WellBound, Reenters, Engaged
  <2>2. prior[e] = e - 1 /\ call[c].outer < e - 1
    BY <1>1, <2>1 DEF Uncrossed, MintedInTurn, Acts, Seeking, RunAcquire, At
  <2>3. \A f \in Entries : call[c].outer < f /\ f < e => status[f] = "idle"
    BY <1>1, <2>1 DEF Acts, Seeking, RunAcquire, At
  <2>4. prior[e] \in Entries => status[prior[e]] = "idle"
    BY <1>1, <2>1, <2>2, <2>3
  <2> QED
    BY <2>4 DEF Current
<1>4. \A f \in Entries : f # e => status'[f] = status[f]
  BY <1>2 DEF WellBound, TypeOK
<1>5. status'[e] = "pending"
  BY <1>1, <1>2 DEF WellBound, TypeOK
<1>6. CacheTellsTruth' /\ MintedInTurn' /\ OwnName'
  BY <1>1, <1>2, <1>4, <1>5
     DEF Uncrossed, CacheTellsTruth, Current, MintedInTurn, OwnName, cache
<1>7. /\ call'[c].pc = p /\ call'[c].sid = call[c].sid /\ call'[c].entry = e
      /\ call'[c].outer = call[c].outer
  BY <1>1, <1>2 DEF CallRecord
<1>8. p \in {"release", "acquire"} /\ (p = "release" => ~Reenters(c))
  BY <1>3
<1>9. Seeking(c) /\ ~InHook(c)
  BY DEF RunAcquire, At, Seeking, InHook
<1>10. Together'
  BY <1>1, <1>2, <1>7, StillTogether DEF Uncrossed
<1>11. ASSUME NEW d \in Calls, d # c, Busy(d)' PROVE Acts(d)'
  <2>1. Busy(d) /\ Acts(d) /\ call'[d] = call[d]
    BY <1>2, <1>11 DEF Uncrossed, Busy, At
  <2>2. call[d].entry = e /\ ~InHook(d) /\ ~Reenters(d)
    BY <1>1, <1>11, <2>1, NoHookBeside
  <2>3. At(d, "granted") => bound' \in {NoSession, call[d].sid}
    BY <1>2, <2>1 DEF Acts
  <2>4. \A f \in 1 .. minted : f \in 1 .. minted' /\ owner'[f] = owner[f]
    BY <1>2 DEF cache
  <2>5. \A f \in Entries : f # call[d].entry /\ status[f] = "idle" => status'[f] = "idle"
    BY <1>4, <2>2
  <2>6. status'[call[d].entry] # "acquired"
    BY <1>5, <2>2
  <2> QED
    BY <2>1, <2>2, <2>3, <2>4, <2>5, <2>6, StaysActing
<1> HIDE DEF e, p
<1>12. Acts(c)'
  BY <1>1, <1>2, <1>4, <1>7, <1>8, <1>9 DEF Acts, Seeking, Reenters, At, InHook, cache, e
<1> QED
  BY <1>6, <1>10, <1>11, <1>12 DEF Uncrossed

LEMMA ReleaseKept ==
  ASSUME WellBound, Uncrossed, NEW c \in Calls, ReleasePrior(c)
  PROVE  Uncrossed'
<1>1. /\ Busy(c) /\ Acts(c) /\ ~Reenters(c) /\ call[c] \in CallRecord
      /\ ~Current(slot) /\ status[call[c].entry] = "pending"
  BY SlotIdle DEF ReleasePrior, At, Busy, Uncrossed, Acts, WellBound, TypeOK, CallRecord
<1>2. /\ call'[c] = [call[c] EXCEPT !.pc = "acquire"] /\ UNCHANGED <<cache, status, sent>>
      /\ bound' = NoSession /\ \A d \in Calls : d # c => call'[d] = call[d]
  BY DEF ReleasePrior, Goes, WellBound, TypeOK
<1>3. /\ call'[c].pc = "acquire" /\ call'[c].sid = call[c].sid
      /\ call'[c].entry = call[c].entry /\ call'[c].outer = call[c].outer
  BY <1>1, <1>2 DEF CallRecord
<1>4. Acts(c)'
  BY <1>1, <1>2, <1>3 DEF ReleasePrior, Acts, Seeking, Reenters, At, InHook, cache
<1>5. Together'
  BY <1>1, <1>2, <1>3, StillTogether DEF Uncrossed
<1>6. ASSUME NEW d \in Calls, d # c, Busy(d)' PROVE Acts(d)'
  <2>1. Busy(d) /\ Acts(d) /\ call'[d] = call[d]
    BY <1>2, <1>6 DEF Uncrossed, Busy, At
  <2>2. call[d].entry = call[c].entry /\ ~InHook(d) /\ ~Reenters(d)
    BY <1>1, <1>6, <2>1, NoHookBeside
  <2>3. status'[call[d].entry] # "acquired"
    BY <1>1, <1>2, <2>2
  <2>4. \A f \in 1 .. minted : f \in 1 .. minted' /\ owner'[f] = owner[f]
    BY <1>2 DEF cache
  <2> QED
    BY <1>2, <2>1, <2>2, <2>3, <2>4, StaysActing
<1> QED
  BY <1>1, <1>2, <1>4, <1>5, <1>6
     DEF Uncrossed, CacheTellsTruth, Current, MintedInTurn, OwnName, cache

\* The bot of the session is bound, and those that waited for it are woken.
LEMMA SucceedsKept ==
  ASSUME WellBound, Uncrossed, NEW c \in Calls, AcquireSucceeds(c)
  PROVE  Uncrossed'
<1> DEFINE e == call[c].entry
<1>1. /\ Busy(c) /\ Acts(c) /\ call[c] \in CallRecord /\ ~Current(slot) /\ e \in Entries
      /\ slot = minted /\ e \in 1 .. minted /\ status[e] # "acquired"
  BY SlotIdle
     DEF AcquireSucceeds, At, Busy, Uncrossed, Acts, WellBound, TypeOK, CallRecord, Acting, MintedInTurn
<1>2. /\ bound' = call[c].sid
      /\ status' = [status EXCEPT ![e] = "acquired"] /\ UNCHANGED <<cache, sent>>
      /\ \A d \in Calls : /\ call[d] \in CallRecord
                          /\ d = c => call'[d] = [call[d] EXCEPT !.pc = "hook"]
                          /\ d # c /\ Awaits(d, e) => call'[d] = [call[d] EXCEPT !.pc = "granted"]
                          /\ d # c /\ ~Awaits(d, e) => call'[d] = call[d]
  BY DEF AcquireSucceeds, WellBound, TypeOK, CallRecord
<1>3. /\ call'[c].pc = "hook" /\ call'[c].sid = call[c].sid
      /\ call'[c].entry = e /\ call'[c].outer = call[c].outer
  BY <1>1, <1>2 DEF CallRecord
<1>4. \A f \in Entries : f # e => status'[f] = status[f]
  BY <1>2 DEF WellBound, TypeOK
<1>5. CacheTellsTruth' /\ MintedInTurn' /\ OwnName'
  <2>1. \A f \in Entries : f > minted => f # e
    BY <1>1 DEF WellBound, TypeOK
  <2> QED
    BY <1>1, <1>2, <1>4, <2>1
       DEF Uncrossed, CacheTellsTruth, Current, MintedInTurn, OwnName, cache, Acts
<1>6. \A f \in Entries : f > e => status'[f] = "idle"
  BY <1>1, <1>4 DEF Acts, AcquireSucceeds, At, Seeking
<1>7. \A d \in Calls :
        /\ call'[d].entry = call[d].entry /\ call'[d].outer = call[d].outer
        /\ call'[d].sid = call[d].sid /\ (Busy(d)' <=> Busy(d))
  <2> SUFFICES ASSUME NEW d \in Calls
               PROVE  /\ call'[d].entry = call[d].entry /\ call'[d].outer = call[d].outer
                      /\ call'[d].sid = call[d].sid /\ (Busy(d)' <=> Busy(d))
    OBVIOUS
  <2>1. CASE d = c
    BY <2>1, <1>1, <1>3 DEF Busy, At
  <2>2. CASE d # c /\ Awaits(d, e)
    BY <2>2, <1>2 DEF CallRecord, Busy, At, Awaits
  <2>3. CASE d # c /\ ~Awaits(d, e)
    BY <2>3, <1>2 DEF Busy, At
  <2> QED
    BY <2>1, <2>2, <2>3
<1>8. Together'
  BY <1>7 DEF Together, Uncrossed
<1>9. ASSUME NEW d \in Calls, d # c, Busy(d)' PROVE Acts(d)'
  <2>1. Busy(d) /\ Acts(d)
    BY <1>7, <1>9 DEF Uncrossed
  <2>2. call[d].entry = e /\ ~InHook(d) /\ ~Reenters(d)
    BY <1>1, <1>9, <2>1, NoHookBeside
  <2>3. call[c].sid = call[d].sid
    BY <1>1, <2>1, <2>2 DEF Acts
  <2>4. CASE ~Awaits(d, e)
    <3>1. call'[d] = call[d]
      BY <1>2, <1>9, <2>4
    <3>2. \A f \in 1 .. minted : f \in 1 .. minted' /\ owner'[f] = owner[f]
      BY <1>2 DEF cache
    <3>3. \A f \in Entries : f # call[d].entry /\ status[f] = "idle" => status'[f] = "idle"
      BY <1>4, <2>2
    <3>4. bound' = call[d].sid
      BY <1>2, <2>3
    <3> QED
      BY <2>1, <3>1, <3>2, <3>3, <3>4, StaysActing
  <2>5. CASE Awaits(d, e)
    <3>1. call'[d].pc = "granted"
      BY <1>2, <1>9, <2>5 DEF CallRecord
    <3>2. bound' = call'[d].sid
      BY <1>2, <1>7, <2>3
    <3>3. ~Reenters(d)'
      BY <1>7, <2>2 DEF Reenters
    <3>4. call'[d].entry \in 1 .. minted' /\ owner'[call'[d].entry] = call'[d].sid
      BY <1>2, <1>7, <2>1 DEF Acts, cache
    <3> HIDE DEF e
    <3> QED
      BY <3>1, <3>2, <3>3, <3>4 DEF Acts, Seeking, At, InHook
  <2> QED
    BY <2>4, <2>5
<1> HIDE DEF e
<1>10. Acts(c)'
  BY <1>1, <1>2, <1>3, <1>6 DEF Acts, Seeking, Reenters, At, InHook, cache, e
<1> QED
  BY <1>5, <1>8, <1>9, <1>10 DEF Uncrossed

\* Whatever ends badly leaves fewer EnsureBounds acquired, and the bound bot as
\* it is.
LEMMA FallenKept ==
  ASSUME WellBound, Uncrossed,
         UNCHANGED <<cache, bound, sent>>,
         \A d \in Calls : call'[d] \in {Idle, call[d]},
         \A f \in Entries : status'[f] \in {"idle", status[f]}
  PROVE  Uncrossed'
<1>1. \A d \in Calls : Busy(d)' => Busy(d) /\ call'[d] = call[d]
  BY DEF Busy, At, Idle
<1>2. ASSUME NEW d \in Calls, Busy(d)' PROVE Acts(d)'
  <2>1. Busy(d) /\ Acts(d) /\ call'[d] = call[d] /\ call[d].entry \in Entries
    BY <1>1, <1>2 DEF Uncrossed, WellBound, Acting, Busy
  <2>2. /\ InHook(d) \/ Reenters(d) => bound' = call[d].sid
        /\ At(d, "bind") /\ status'[call[d].entry] = "acquired" => bound' = call[d].sid
        /\ At(d, "granted") => bound' \in {NoSession, call[d].sid}
    BY <2>1 DEF Acts
  <2>3. \A f \in 1 .. minted : f \in 1 .. minted' /\ owner'[f] = owner[f]
    BY DEF cache
  <2> QED
    BY <2>1, <2>2, <2>3, StaysActing
<1>3. Together'
  BY <1>1 DEF Together, Uncrossed
<1>4. MintedInTurn' /\ CacheTellsTruth' /\ OwnName'
  BY DEF Uncrossed, MintedInTurn, CacheTellsTruth, Current, OwnName, cache
<1> QED
  BY <1>2, <1>3, <1>4 DEF Uncrossed

\* An acquire that fails finds no bot bound, so no hook is at work.
LEMMA FailsKept ==
  ASSUME WellBound, Uncrossed, NEW c \in Calls, AcquireFails(c)
  PROVE  Uncrossed'
<1>1. \A d \in Calls : ~Awaits(d, call[c].entry) /\ d # c => call'[d] = call[d]
  BY DEF AcquireFails
<1>2. ASSUME NEW d \in Calls, d = c \/ Awaits(d, call[c].entry) PROVE call'[d] = Idle
  <2>1. Busy(d) /\ Acts(d) /\ call[d].sid \in Sessions /\ bound = NoSession
    BY <1>2 DEF AcquireFails, Awaits, At, Busy, Uncrossed, WellBound, Acting
  <2>2. ~Reenters(d)
    BY <2>1, BindingAssumption DEF BindingAssumption, Acts
  <2> QED
    BY <1>2, <2>2 DEF AcquireFails, Resumed, Reenters
<1>3. \A f \in Entries : status'[f] \in {"idle", status[f]}
  BY DEF AcquireFails, WellBound, TypeOK
<1> QED
  BY <1>1, <1>2, <1>3, FallenKept DEF AcquireFails

LEMMA DiesKept ==
  ASSUME WellBound, Uncrossed, NEW c \in Calls, Dies(c) \/ HookDies(c)
  PROVE  Uncrossed'
<1>1. \A d \in Calls : call'[d] \in {Idle, call[d]}
  BY DEF Dies, HookDies, WellBound, TypeOK
<1>2. \A f \in Entries : status'[f] \in {"idle", status[f]}
  BY DEF Dies, HookDies
<1> QED
  BY <1>1, <1>2, FallenKept DEF Dies, HookDies

LEMMA StepBound ==
  ASSUME WellBound, Next \/ \E c \in Calls : At(c, "acquire") /\ Dies(c)
  PROVE  WellBound'
<1>1. CASE Next
  BY <1>1, StepTypes, StepFlight DEF WellBound
<1>2. ASSUME NEW c \in Calls, At(c, "acquire"), Dies(c) PROVE WellBound'
  BY <1>2, DyingTypes, DiesFlight DEF WellBound
<1> QED
  BY <1>1, <1>2

\* What has crossed stays so.
LEMMA StaysCrossed ==
  ASSUME Next \/ \E c \in Calls : At(c, "acquire") /\ Dies(c), crossed
  PROVE  crossed'
<1>1. ASSUME NEW c \in Calls, Advance(c) PROVE crossed'
  BY <1>1 DEF Advance, HaveIdentity, AwaitAcquire, RunAcquire, ReleasePrior, AcquireSucceeds,
     AcquireFails, AcquireDies, Dies, HookReenters, HookReturns, HookDies, WokenWrites, WriteOut
<1> QED
  BY <1>1 DEF Next, Peek, StartCall, Dies

\* Steps of a call, and its death for whatever reason its acquire is refused.
LEMMA StepKept ==
  ASSUME WellKept, Next \/ \E c \in Calls : At(c, "acquire") /\ Dies(c)
  PROVE  WellKept'
<1>1. WellBound'
  BY StepBound DEF WellKept
<1>2. CASE crossed'
  BY <1>1, <1>2 DEF WellKept
<1>3. CASE ~crossed'
  <2>1. WellBound /\ Uncrossed
    BY <1>3, StaysCrossed DEF WellKept
  <2>2. ASSUME NEW c \in Calls, Advance(c) \/ (At(c, "acquire") /\ Dies(c)) PROVE Uncrossed'
    BY <1>3, <2>1, <2>2, WriteKept, AwaitKept, RunKept, ReleaseKept, SucceedsKept, FailsKept,
       DiesKept, ReenterKept DEF Advance, AcquireDies
  <2>3. Uncrossed'
    BY <1>3, <2>1, <2>2, PeekKept, StartKept DEF Next
  <2> QED
    BY <1>1, <2>3 DEF WellKept
<1> QED
  BY <1>2, <1>3

LEMMA InitKept == Init => WellKept
<1>1. Init => minted = 0 /\ \A m \in 1 .. 0 : FALSE
  BY DEF Init
<1>2. Init => MintedInTurn
  BY <1>1 DEF Init, MintedInTurn
<1> QED
  BY <1>2, InitWellBound
     DEF Init, WellKept, Uncrossed, CacheTellsTruth, Current, OwnName, Together, Busy, At, Idle

LEMMA StutterKept == WellKept /\ UNCHANGED vars => WellKept'
<1>1. ASSUME WellKept, UNCHANGED vars PROVE WellBound'
  BY <1>1, StepWellBound DEF WellKept
<1>2. ASSUME Uncrossed, UNCHANGED vars, NEW c \in Calls PROVE (Busy(c) => Acts(c))'
  BY <1>2 DEF Uncrossed, vars, Busy, Acts, Seeking, Reenters, At, InHook
<1>3. ASSUME Uncrossed, UNCHANGED vars
      PROVE  (MintedInTurn /\ CacheTellsTruth /\ OwnName /\ Together)'
  BY <1>3 DEF Uncrossed, vars, MintedInTurn, CacheTellsTruth, Current, OwnName, Together, Busy, At
<1> QED
  BY <1>1, <1>2, <1>3 DEF WellKept, Uncrossed, vars

LEMMA AlwaysKept == Spec => []WellKept
<1>1. WellKept /\ [Next]_vars => WellKept'
  BY StepKept, StutterKept
<1> QED
  BY <1>1, InitKept, PTL DEF Spec

\* Until two calls are under way in different EnsureBounds, a write goes out
\* under the bot of the session that made it: also where many calls share one
\* EnsureBound, lookups of other sessions come between, acquires and hooks fail
\* and are tried again, and hooks pass the seam again (mcp/session-binder.ts,
\* zulip/adapter.ts boundHttp).
THEOREM UncrossedCallsWriteAsThemselves == Spec => []OwnNameUncrossed
<1>1. WellKept => OwnNameUncrossed
  BY DEF WellKept, Uncrossed, OwnNameUncrossed
<1> QED
  BY <1>1, AlwaysKept, PTL

\* Until then, the identity the cache reports as bound is the one the adapter
\* holds (mcp/identity-cache.ts, mcp/ensure-bound.ts).
THEOREM UncrossedCacheIsTrue == Spec => []TruthUncrossed
<1>1. WellKept => TruthUncrossed
  BY DEF WellKept, Uncrossed, TruthUncrossed
<1> QED
  BY <1>1, AlwaysKept, PTL

-----------------------------------------------------------------------------
(* The seam in the processes of a seat *)

\* To the binding a step of the seat is one of its own, the death of an acquire
\* that finds its session's bot under another name, or a new process.
LEMMA BindingStep ==
  ASSUME BootNext
  PROVE  \/ Init'
         \/ Next
         \/ \E c \in Calls : At(c, "acquire") /\ Dies(c)
         \/ UNCHANGED vars
<1>1. CASE Exit
  BY <1>1 DEF Exit, Init
<1>2. ASSUME NEW c \in Calls, CallGoesOn(c) \/ DiesOfItsOwn(c)
      PROVE  Next \/ \E d \in Calls : At(d, "acquire") /\ Dies(d)
  BY <1>2 DEF CallGoesOn, DiesOfItsOwn, Renamed, Next
<1>3. ASSUME NEW s \in Sessions, NEW place \in Places,
             LooksUp(s, place) \/ \E c \in Calls : CallStarts(c, s, place)
      PROVE  Next
  BY <1>3 DEF LooksUp, CallStarts, Next
<1>4. ASSUME NEW e \in Envs, NEW place \in Places, Launch(e, place) PROVE UNCHANGED vars
  BY <1>4 DEF Launch
<1>5. CASE SignInFinds \/ SignInMints \/ MintIsLost \/ BootFails
  BY <1>5 DEF SignInFinds, SignInMints, MintIsLost, BootFails, SignsIn
<1>6. CASE RegistersDefault \/ DefaultsFail \/ SeedOnMint \/ SubscribeFromEnv
  BY <1>6 DEF RegistersDefault, DefaultsFail, SeedOnMint, SubscribeFromEnv
<1>7. ASSUME NEW channel, AgentUnsubscribes(channel) \/ AgentSubscribes(channel)
      PROVE  UNCHANGED vars
  BY <1>7 DEF AgentUnsubscribes, AgentSubscribes
<1> QED
  BY <1>1, <1>2, <1>3, <1>4, <1>5, <1>6, <1>7 DEF BootNext

LEMMA SeatWellBound == BootSpec => []WellBound
<1>1. Init' => WellBound'
  BY InitWellBound, PTL
<1>2. WellBound /\ UNCHANGED vars => WellBound'
  BY StepWellBound
<1>3. WellBound /\ [BootNext]_bootVars => WellBound'
  BY <1>1, <1>2, BindingStep, StepBound DEF bootVars
<1>4. BootInit => WellBound
  BY InitWellBound DEF BootInit
<1> QED
  BY <1>3, <1>4, PTL DEF BootSpec

LEMMA SeatKept == BootSpec => []WellKept
<1>1. Init' => WellKept'
  BY InitKept, PTL
<1>2. WellKept /\ [BootNext]_bootVars => WellKept'
  BY <1>1, BindingStep, StepKept, StutterKept DEF bootVars
<1>3. BootInit => WellKept
  BY InitKept DEF BootInit
<1> QED
  BY <1>2, <1>3, PTL DEF BootSpec

\* Whatever processes serve the seat and from wherever its calls come: until two
\* of a process's calls are under way in different EnsureBounds, a write goes out
\* under the bot of the session that made it (mcp/session-binder.ts,
\* mcp/identity-cache.ts deriveBotName).
THEOREM SeatWritesAsItself == BootSpec => []OwnNameUncrossed
<1>1. WellKept => OwnNameUncrossed
  BY DEF WellKept, Uncrossed, OwnNameUncrossed
<1> QED
  BY <1>1, SeatKept, PTL

\* The same of the identity the seat reports as bound, also when an acquire is
\* refused because the session's bot is bound under another project's name
\* (mcp/identity-cache.ts, zulip/adapter.ts acquire).
THEOREM SeatKeepsTheCacheTrue == BootSpec => []TruthUncrossed
<1>1. WellKept => TruthUncrossed
  BY DEF WellKept, Uncrossed, TruthUncrossed
<1> QED
  BY <1>1, SeatKept, PTL

-----------------------------------------------------------------------------
(* Wandering *)

Full(place) == [root |-> RootName[place], remote |-> RemoteName[place]]

\* The bot name of a session in the project of the launch.
HomeName(s) == IF s = NoSession THEN <<>> ELSE ComposeBotName(s, home.project)

\* While settled, every call and every EnsureBound is of the launch's project.
AtHome ==
  settled =>
    /\ phase = "ephemeral" => home.project = ProjectForCwd(Config, Full(home.place))
    /\ \A e \in Entries : called[e] = HomeName(owner[e])
    /\ \A c \in Calls : At(c, "free") \/ caller[c] = home.project
    /\ \A n \in named : n[2] = HomeName(n[1])

\* A process that is launched finds nothing of the one before.
LeftBare ==
  phase = "down" =>
    /\ named = {} /\ \A c \in Calls : At(c, "free")
    /\ \A e \in Entries : called[e] = <<>> /\ owner[e] = NoSession

Homely ==
  /\ called = [e \in Entries |-> called[e]] /\ caller = [c \in Calls |-> caller[c]]
  /\ LeftBare /\ AtHome

\* A call's project is the launch's, where its directory is the launch's or is
\* in no checkout, and git answers both its questions or none.
LEMMA ProjectIsHome ==
  ASSUME AtHome, settled, phase = "ephemeral", NEW place \in Places,
         NEW git \in GitContexts(place), place = home.place \/ RootName[place] = <<>>,
         Answered(git, place)
  PROVE  ProjectForCall(git) = home.project
<1>1. home.project = ProjectForCwd(Config, Full(home.place))
  BY DEF AtHome
<1>2. CASE git.root = <<>>
  BY <1>1, <1>2 DEF ProjectForCall, ProjectForCwd, DeriveProject
<1>3. CASE git = Full(home.place)
  BY <1>1, <1>3 DEF ProjectForCall
<1> QED
  BY <1>2, <1>3 DEF Answered, Full

\* What a step of a call does to who is free, and to the cache.
LEMMA AdvanceFrame ==
  ASSUME NEW c \in Calls, Advance(c), WellBound
  PROVE  /\ ~At(c, "free")
         /\ \A d \in Calls : ~At(d, "free")' => ~At(d, "free")
         /\ UNCHANGED cache \/ \E e \in Entries : EnsureBoundFor(call[c].sid, e)
<1>1. call \in [Calls -> CallRecord]
  BY DEF WellBound, TypeOK, CallRecord
<1>2. CASE HaveIdentity(c) \/ HookReturns(c) \/ WokenWrites(c) \/ HookDies(c)
  BY <1>1, <1>2
     DEF HaveIdentity, HookReturns, WokenWrites, HookDies, WriteOut, InHook, At
<1>3. CASE AwaitAcquire(c) \/ RunAcquire(c) \/ ReleasePrior(c)
  BY <1>1, <1>3 DEF AwaitAcquire, RunAcquire, ReleasePrior, Goes, At
<1>4. CASE AcquireSucceeds(c) \/ AcquireFails(c) \/ AcquireDies(c)
  <2>1. \A d \in Calls : d # c /\ ~At(d, "await") => call'[d] = call[d]
    BY <1>4 DEF AcquireSucceeds, AcquireFails, AcquireDies, Dies, Awaits
  <2> QED
    BY <1>4, <2>1 DEF AcquireSucceeds, AcquireFails, AcquireDies, Dies, At
<1>5. CASE HookReenters(c)
  BY <1>1, <1>5 DEF HookReenters, At
<1> QED
  BY <1>2, <1>3, <1>4, <1>5 DEF Advance

\* An EnsureBound that is minted for a call of the launch's project.
LEMMA MintedAtHome ==
  ASSUME WellBound, Homely, NEW s \in Sessions, NEW project, Names(s, project),
         UNCHANGED cache \/ \E e \in Entries : EnsureBoundFor(s, e), home' = home
  PROVE  /\ called' = [e \in Entries |-> called'[e]]
         /\ settled /\ project = home.project =>
              \A e \in Entries : called'[e] = HomeName(owner'[e])
<1>1. owner \in [Entries -> Sessions \cup {NoSession}] /\ minted \in Nat
  BY BindingAssumption DEF BindingAssumption, WellBound, TypeOK
<1>2. CASE UNCHANGED cache
  BY <1>2 DEF cache, Names, Homely, AtHome, HomeName
<1>3. ASSUME NEW e \in Entries, EnsureBoundFor(s, e), ~UNCHANGED cache
      PROVE  /\ called' = [f \in Entries |-> called'[f]]
             /\ settled /\ project = home.project =>
                  \A f \in Entries : called'[f] = HomeName(owner'[f])
  <2>1. minted' = e /\ e = minted + 1 /\ slot' = e /\ owner' = [owner EXCEPT ![e] = s]
    BY <1>3 DEF EnsureBoundFor
  <2>2. called' = [called EXCEPT ![e] = ComposeBotName(s, project)]
    BY <1>1, <2>1 DEF Names
  <2>3. s # NoSession
    BY BindingAssumption DEF BindingAssumption
  <2> QED
    BY <1>1, <2>1, <2>2, <2>3 DEF Homely, AtHome, HomeName
<1> QED
  BY <1>2, <1>3

LEMMA EphemeralHomely ==
  ASSUME WellBound, Homely, NEW s \in Sessions, NEW place \in Places,
         LooksUp(s, place) \/ \E c \in Calls : CallStarts(c, s, place)
  PROVE  Homely'
<1>1. /\ \E e \in Entries : EnsureBoundFor(s, e)
      /\ phase = "ephemeral" /\ UNCHANGED <<named, phase, env, home>>
  BY DEF CallStarts, LooksUp, StartCall, Peek, boot
<1>2. PICK git \in GitContexts(place) :
        /\ Names(s, ProjectForCall(git)) /\ Wanders(place, git)
        /\ \/ UNCHANGED <<call, caller>>
           \/ \E c \in Calls : /\ caller' = [caller EXCEPT ![c] = ProjectForCall(git)]
                               /\ \A d \in Calls : d # c => call'[d] = call[d]
  BY DEF CallStarts, LooksUp, StartCall, Peek, WellBound, TypeOK
<1>3. settled' => settled /\ ProjectForCall(git) = home.project
  BY <1>1, <1>2, ProjectIsHome DEF Wanders, Homely
<1>4. /\ called' = [e \in Entries |-> called'[e]]
      /\ settled' => \A e \in Entries : called'[e] = HomeName(owner'[e])
  BY <1>1, <1>2, <1>3, MintedAtHome
<1>5. caller' = [d \in Calls |-> caller'[d]]
  BY <1>2 DEF Homely
<1>6. settled' => \A d \in Calls : At(d, "free")' \/ caller'[d] = home.project
  BY <1>2, <1>3 DEF Homely, AtHome, At
<1> QED
  BY <1>1, <1>3, <1>4, <1>5, <1>6 DEF Homely, LeftBare, AtHome, HomeName, Config

LEMMA CallHomely ==
  ASSUME WellBound, Homely, NEW c \in Calls, CallGoesOn(c)
  PROVE  Homely'
<1>1. /\ ~At(c, "free") /\ call[c].sid \in Sessions
      /\ \A d \in Calls : ~At(d, "free")' => ~At(d, "free")
      /\ UNCHANGED cache \/ \E e \in Entries : EnsureBoundFor(call[c].sid, e)
  BY AdvanceFrame DEF CallGoesOn, WellBound, Acting
<1>2. /\ Names(call[c].sid, caller[c]) /\ phase = "ephemeral"
      /\ UNCHANGED <<caller, settled, phase, env, home>>
  BY DEF CallGoesOn, boot
<1>3. /\ called' = [e \in Entries |-> called'[e]]
      /\ settled => \A e \in Entries : called'[e] = HomeName(owner'[e])
  BY <1>1, <1>2, MintedAtHome DEF Homely, AtHome
<1>4. settled => \A n \in named' : n[2] = HomeName(n[1])
  BY DEF CallGoesOn, Homely, AtHome
<1> QED
  BY <1>1, <1>2, <1>3, <1>4 DEF Homely, LeftBare, AtHome, HomeName, Config

\* The steps of a pinned seat, and what else leaves names and calls alone.
LEMMA OtherHomely ==
  ASSUME Homely, UNCHANGED <<owner, called, caller, settled, named, env, home>>,
         \A c \in Calls : At(c, "free") => At(c, "free")',
         phase' # "down", phase' = "ephemeral" => phase = "ephemeral"
  PROVE  Homely'
  BY DEF Homely, LeftBare, AtHome, HomeName, Config

LEMMA LaunchHomely ==
  ASSUME Homely, NEW e \in Envs, NEW place \in Places, Launch(e, place)
  PROVE  Homely'
<1>1. PICK git \in GitContexts(place) :
        /\ home' = [place |-> place,
                    project |-> IF Refused(e) THEN <<>> ELSE ProjectForCwd(ParseEnv(e), git)]
        /\ settled' = (git = Full(place))
  BY DEF Launch, Full
<1>2. /\ phase = "down" /\ env' = e /\ UNCHANGED <<owner, call, called, caller, named>>
      /\ Refused(e) => phase' = "refused"
      /\ ~Refused(e) => phase' \in {"ephemeral", "signing"}
  BY Zenon DEF Launch, vars
<1>3. phase' = "ephemeral" /\ settled' =>
        home'.project = ProjectForCwd(Config', Full(home'.place))
  BY <1>1, <1>2 DEF Config, ProjectForCwd, DeriveProject
<1> QED
  BY <1>2, <1>3 DEF Homely, LeftBare, AtHome, HomeName, At

LEMMA SeatHomely == BootSpec => []Homely
<1>1. BootInit => Homely
  BY DEF BootInit, Init, Homely, LeftBare, AtHome, HomeName, At, Idle
<1>2. ASSUME WellBound, Homely, BootNext PROVE Homely'
  <2>1. CASE Exit
    BY <1>2, <2>1 DEF Exit, Homely, LeftBare, AtHome, At, Idle
  <2>2. ASSUME NEW c \in Calls, DiesOfItsOwn(c) PROVE Homely'
    <3>1. \A d \in Calls : At(d, "free") => At(d, "free")'
      BY <2>2 DEF DiesOfItsOwn, Dies, At, Idle
    <3> QED
      BY <1>2, <2>2, <3>1, OtherHomely DEF DiesOfItsOwn, Dies, naming, boot, cache
  <2>3. CASE SignInFinds \/ SignInMints \/ MintIsLost \/ BootFails
    BY <1>2, <2>3, OtherHomely
       DEF SignInFinds, SignInMints, MintIsLost, BootFails, SignsIn, vars, naming, boot, At
  <2>4. CASE RegistersDefault \/ DefaultsFail \/ SeedOnMint \/ SubscribeFromEnv
    BY <1>2, <2>4, OtherHomely
       DEF RegistersDefault, DefaultsFail, SeedOnMint, SubscribeFromEnv, vars, naming, boot, At
  <2>5. ASSUME NEW channel, AgentUnsubscribes(channel) \/ AgentSubscribes(channel)
        PROVE  Homely'
    BY <1>2, <2>5, OtherHomely
       DEF AgentUnsubscribes, AgentSubscribes, vars, naming, boot, At
  <2> QED
    BY <1>2, <2>1, <2>2, <2>3, <2>4, <2>5, EphemeralHomely, CallHomely, LaunchHomely
       DEF BootNext
<1>3. Homely /\ UNCHANGED bootVars => Homely'
  BY DEF bootVars, vars, boot, naming, Homely, LeftBare, AtHome, HomeName, Config, At
<1> QED
  BY <1>1, <1>2, <1>3, SeatWellBound, PTL DEF BootSpec

\* A session keeps one bot for as long as its process lives, wherever its shell
\* goes and however often git answers nothing, where the process was launched
\* in a checkout it could read and the calls come from there or from no project
\* (deriveBotName and projectForCall in mcp/server.ts and mcp/bootstrap.ts).
THEOREM WanderersKeepTheirBot == BootSpec => []WanderingKeepsTheBot
<1>1. Homely => WanderingKeepsTheBot
  BY DEF Homely, AtHome, WanderingKeepsTheBot
<1> QED
  BY <1>1, SeatHomely, PTL

-----------------------------------------------------------------------------
(* The pinned bot's subscriptions *)

Slugs == {SanitiseProjectSlug(e.project.v) : e \in {f \in Envs : f.project.is = "text"}}

DefaultIntents ==
  [kind : {"new-topics-in-channel", "thread"}, channel : Slugs, thread : {<<>>, <<"general">>}]

\* A bot that is being seeded has only been minted, and nothing was unsubscribed
\* from; what comes back by default is a project's own.
OwnsWhatItLeft ==
  /\ env \in Envs
  /\ phase \notin {"down", "refused"} => ~Refused(env)
  /\ pinned \in [exists : BOOLEAN, origin : {"none", "existing", "minted"}]
  /\ ~pinned.exists => left = {}
  /\ phase \in {"defaults", "seeding", "signed"} => pinned.exists
  /\ phase \in {"defaults", "seeding"} /\ pinned.origin # "existing" => left = {}
  /\ phase = "seeding" => pinned.origin # "existing"
  /\ phase = "defaults" => todo \in Seq(DefaultIntents)
  /\ left \cap held \subseteq Slugs

LEMMA DefaultsType ==
  ASSUME env \in Envs, ~Refused(env)
  PROVE  Defaults \in Seq(DefaultIntents)
<1>1. CASE Config.project = None
  <2>1. << >> \in Seq(DefaultIntents)
    OBVIOUS
  <2> QED
    BY <1>1, <2>1 DEF Defaults
<1>2. CASE Config.project # None
  <2> DEFINE project == OptionalNonEmpty(env.project)
             slug == IF project.is = "some" THEN SanitiseProjectSlug(project.v) ELSE <<>>
  <2>1. Config.project = IF project = Bad THEN Bad ELSE IF slug = <<>> THEN None ELSE Some(slug)
    BY DEF Config, ParseEnv
  <2>2. Config.project # Bad
    BY DEF Refused, Config, ParseEnv
  <2>3. project # Bad /\ slug # <<>> /\ Config.project.v = slug
    BY <1>2, <2>1, <2>2 DEF Some
  <2>4. project.is = "some"
    BY <2>3
  <2>5. env.project.is \in {"absent", "empty", "unset", "broken", "text"}
    BY BootstrapAssumption DEF BootstrapAssumption
  <2>6. env.project.is = "text" /\ project.v = env.project.v
    BY <2>4, <2>5 DEF OptionalNonEmpty, None, Bad, Some
  <2>7. Config.project.v \in Slugs
    BY <2>3, <2>4, <2>6 DEF Slugs
  <2> HIDE DEF project, slug
  <2>8. /\ [kind |-> "new-topics-in-channel", channel |-> Config.project.v, thread |-> <<>>]
             \in DefaultIntents
        /\ [kind |-> "thread", channel |-> Config.project.v, thread |-> <<"general">>]
             \in DefaultIntents
    BY <2>7 DEF DefaultIntents
  <2> QED
    BY <1>2, <2>8 DEF Defaults
<1> QED
  BY <1>1, <1>2

LEMMA SignsInOwns ==
  ASSUME OwnsWhatItLeft, NEW origin \in {"existing", "minted"}, phase = "signing",
         SignsIn(origin), origin = "minted" => left = {}
  PROVE  OwnsWhatItLeft'
  BY DefaultsType DEF OwnsWhatItLeft, SignsIn

LEMMA SeatOwns == BootSpec => []OwnsWhatItLeft
<1>1. BootInit => OwnsWhatItLeft
  BY DEF BootInit, OwnsWhatItLeft
<1>2. ASSUME OwnsWhatItLeft, BootNext PROVE OwnsWhatItLeft'
  <2> USE <1>2
  <2>1. ASSUME NEW e \in Envs, NEW place \in Places, Launch(e, place) PROVE OwnsWhatItLeft'
    <3>1. /\ env' = e /\ UNCHANGED pinning
          /\ Refused(e) => phase' = "refused"
          /\ phase' \in {"refused", "ephemeral", "signing"}
      BY <2>1 DEF Launch
    <3> QED
      BY <2>1, <3>1 DEF OwnsWhatItLeft, pinning
  <2>2. CASE Exit
    BY <2>2 DEF Exit, OwnsWhatItLeft
  <2>3. ASSUME NEW s \in Sessions, NEW place \in Places,
               LooksUp(s, place) \/ \E c \in Calls : CallStarts(c, s, place)
        PROVE  OwnsWhatItLeft'
    BY <2>3 DEF LooksUp, CallStarts, boot, pinning, OwnsWhatItLeft
  <2>4. ASSUME NEW c \in Calls, CallGoesOn(c) \/ DiesOfItsOwn(c) PROVE OwnsWhatItLeft'
    BY <2>4 DEF CallGoesOn, DiesOfItsOwn, boot, pinning, OwnsWhatItLeft
  <2>5. CASE SignInFinds \/ SignInMints
    BY <2>5, SignsInOwns DEF SignInFinds, SignInMints, OwnsWhatItLeft
  <2>6. CASE MintIsLost \/ BootFails
    BY <2>6 DEF MintIsLost, BootFails, boot, pinning, OwnsWhatItLeft
  <2>7. CASE RegistersDefault
    <3>1. todo \in Seq(DefaultIntents) /\ todo # <<>>
      BY <2>7 DEF RegistersDefault, OwnsWhatItLeft
    <3>2. Head(todo) \in DefaultIntents /\ Tail(todo) \in Seq(DefaultIntents)
      BY <3>1
    <3>3. Head(todo).channel \in Slugs
      BY <3>2 DEF DefaultIntents
    <3> QED
      BY <2>7, <3>2, <3>3 DEF RegistersDefault, Holds, boot, OwnsWhatItLeft
  <2>8. CASE DefaultsFail
    <3>1. << >> \in Seq(DefaultIntents)
      OBVIOUS
    <3> QED
      BY <2>8, <3>1 DEF DefaultsFail, boot, OwnsWhatItLeft
  <2>9. CASE SeedOnMint
    BY <2>9 DEF SeedOnMint, OwnsWhatItLeft
  <2>10. CASE SubscribeFromEnv
    <3>1. /\ phase = "seeding" /\ phase' \in {"seeding", "signed"} /\ UNCHANGED <<env, pinned, left>>
      BY <2>10 DEF SubscribeFromEnv
    <3>2. left = {} /\ pinned.exists
      BY <3>1 DEF OwnsWhatItLeft
    <3> QED
      BY <3>1, <3>2 DEF OwnsWhatItLeft
  <2>11. ASSUME NEW channel, AgentUnsubscribes(channel) \/ AgentSubscribes(channel)
         PROVE  OwnsWhatItLeft'
    BY <2>11 DEF AgentUnsubscribes, AgentSubscribes, boot, OwnsWhatItLeft
  <2> QED
    BY <2>1, <2>2, <2>3, <2>4, <2>5, <2>6, <2>7, <2>8, <2>9, <2>10, <2>11 DEF BootNext
<1>3. OwnsWhatItLeft /\ UNCHANGED bootVars => OwnsWhatItLeft'
  BY DEF bootVars, boot, pinning, OwnsWhatItLeft
<1> QED
  BY <1>1, <1>2, <1>3, PTL DEF BootSpec

\* What an agent has unsubscribed from stays so over restarts, whatever
\* COMMY_SUBSCRIBE says: it seeds only a bot just minted, and a project's
\* default channels are all that comes back (seedOnMint and the defaults of
\* mcp/server.ts).
THEOREM RestartsRespectTheAgent == BootSpec => []BotOwnsItsSubscriptions
<1>1. OwnsWhatItLeft => BotOwnsItsSubscriptions
  BY DEF OwnsWhatItLeft, BotOwnsItsSubscriptions, Slugs
<1> QED
  BY <1>1, SeatOwns, PTL
=============================================================================
