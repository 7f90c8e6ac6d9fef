--------------------------- MODULE IdentityBinding ---------------------------
(***************************************************************************)
(* How an ephemeral seat comes to act under a bot of its own: the identity *)
(* cache's single slot (mcp/identity-cache.ts), the single-flight          *)
(* EnsureBound in it (mcp/ensure-bound.ts), the bind-on-demand seam every  *)
(* write passes (mcp/session-binder.ts, zulip/adapter.ts boundHttp) and    *)
(* the adapter's one binding (zulip/adapter.ts acquire and release).       *)
(*                                                                         *)
(* One MCP child serves one conversation after another, so calls of        *)
(* several sessions can be in flight at once.  A bot is named after its    *)
(* session; here it is the session.  Every slot the cache mints is a new   *)
(* EnsureBound, numbered in the order of minting; a call may still hold    *)
(* one the slot has moved on from.                                         *)
(***************************************************************************)
EXTENDS Integers, FiniteSets

CONSTANTS
  Sessions,     \* conversations, each with its own session id
  NoSession,    \* nothing is bound
  Calls,        \* bound: tool calls in flight at once
  MaxEntries    \* bound: EnsureBounds the cache mints

ASSUME BindingAssumption ==
  /\ NoSession \notin Sessions
  /\ MaxEntries \in Nat

Entries == 1 .. MaxEntries
NoEntry == 0

VARIABLES
  slot,     \* the EnsureBound the cache holds, NoEntry before the first
  minted,   \* how many were minted
  owner,    \* the session an EnsureBound was minted for
  prior,    \* the EnsureBound it displaced
  status,   \* its AcquireState: "idle", "pending", "acquired"
  bound,    \* the adapter's boundRef
  call,     \* each call: where it stands, its session, the EnsureBound it
            \* runs, and the one whose hook it runs inside (re-entry)
  sent,     \* history: <<session, bot>> of every write
  crossed   \* history: two calls were in flight that ran different EnsureBounds

cache == <<slot, minted, owner, prior>>
vars == <<slot, minted, owner, prior, status, bound, call, sent, crossed>>

Idle == [pc |-> "free", sid |-> NoSession, entry |-> NoEntry, outer |-> NoEntry]

Init ==
  /\ slot = NoEntry /\ minted = 0
  /\ owner = [e \in Entries |-> NoSession]
  /\ prior = [e \in Entries |-> NoEntry]
  /\ status = [e \in Entries |-> "idle"]
  /\ bound = NoSession
  /\ call = [c \in Calls |-> Idle]
  /\ sent = {} /\ crossed = FALSE

-----------------------------------------------------------------------------
(* The cache *)

\* ensureBoundFor: the slot's EnsureBound when it is this session's, else a
\* fresh one that remembers the slot it displaces.
SlotIsOf(s) == slot \in Entries /\ owner[slot] = s

\* Mistaken variants: an EnsureBound is not counted; a session that comes back
\* finds the EnsureBound it had.
EnsureBoundFor_Uncounted(s, e) ==
  /\ minted < MaxEntries /\ e = minted + 1
  /\ slot' = e
  /\ owner' = [owner EXCEPT ![e] = s]
  /\ prior' = [prior EXCEPT ![e] = slot]
  /\ UNCHANGED minted
EnsureBoundFor_Remembers(s, e) ==
  \/ /\ owner[e] = s /\ slot' = e
     /\ UNCHANGED <<minted, owner, prior>>
  \/ /\ \A f \in Entries : owner[f] # s
     /\ minted < MaxEntries /\ e = minted + 1
     /\ minted' = e /\ slot' = e
     /\ owner' = [owner EXCEPT ![e] = s]
     /\ prior' = [prior EXCEPT ![e] = slot]

EnsureBoundFor(s, e) ==
  \/ /\ SlotIsOf(s) /\ e = slot
     /\ UNCHANGED cache
  \/ /\ ~SlotIsOf(s)
     /\ minted < MaxEntries /\ e = minted + 1
     /\ minted' = e /\ slot' = e
     /\ owner' = [owner EXCEPT ![e] = s]
     /\ prior' = [prior EXCEPT ![e] = slot]

\* EnsureBound.current()
Current(e) == e \in Entries /\ status[e] = "acquired"

\* current_identity and list_subscriptions ask the cache and never bind.
Peek(s) ==
  /\ \E e \in Entries : EnsureBoundFor(s, e)
  /\ UNCHANGED <<status, bound, call, sent, crossed>>

-----------------------------------------------------------------------------
(* A write: boundHttp *)

At(c, where) == call[c].pc = where
Goes(c, where) == call' = [call EXCEPT ![c].pc = where]

\* A call for session s that runs e, out of the hook of o if it is re-entrant.
Binding(s, e, o) == [pc |-> "bind", sid |-> s, entry |-> e, outer |-> o]

\* Another call is under way in another EnsureBound than e.
Crosses(c, e) ==
  \E d \in Calls \ {c} :
    ~At(d, "free") /\ (call[d].entry # e \/ call[d].outer \notin {NoEntry, e})

\* The binder asks the cache for the calling session's EnsureBound.
StartCall(c, s) ==
  /\ At(c, "free")
  /\ \E e \in Entries :
       /\ EnsureBoundFor(s, e)
       /\ call' = [call EXCEPT ![c] = Binding(s, e, NoEntry)]
       /\ crossed' = (crossed \/ Crosses(c, e))
  /\ UNCHANGED <<status, bound, sent>>

\* Where a bind leaves its call: done, or back in the hook that made it, where
\* a typed failure is logged and goes no further.
Resumed(r) ==
  IF r.outer = NoEntry
    THEN Idle
    ELSE [r EXCEPT !.pc = "seeded", !.entry = r.outer, !.outer = NoEntry]

\* requireBound: the write goes out through whatever the adapter holds by then.
WriteOut(c) ==
  /\ sent' = IF bound = NoSession THEN sent ELSE sent \cup {<<call[c].sid, bound>>}
  /\ call' = [call EXCEPT ![c] = Resumed(@)]
  /\ UNCHANGED crossed

HaveIdentity(c) ==
  /\ At(c, "bind") /\ status[call[c].entry] = "acquired"
  /\ WriteOut(c)
  /\ UNCHANGED <<cache, status, bound>>

AwaitAcquire(c) ==
  /\ At(c, "bind") /\ status[call[c].entry] = "pending"
  /\ Goes(c, "await")
  /\ UNCHANGED <<cache, status, bound, sent, crossed>>

\* Mistaken variant: a caller that finds the state pending runs it too.
RunAcquire_Unshared(c) ==
  /\ At(c, "bind") /\ status[call[c].entry] # "acquired"
  /\ status' = [status EXCEPT ![call[c].entry] = "pending"]
  /\ Goes(c, IF Current(prior[call[c].entry]) THEN "release" ELSE "acquire")
  /\ UNCHANGED <<cache, bound, sent, crossed>>

\* The caller that finds the state idle runs the acquire; what the displaced
\* EnsureBound reads now decides whether it releases first.
RunAcquire(c) ==
  /\ At(c, "bind") /\ status[call[c].entry] = "idle"
  /\ status' = [status EXCEPT ![call[c].entry] = "pending"]
  /\ Goes(c, IF Current(prior[call[c].entry]) THEN "release" ELSE "acquire")
  /\ UNCHANGED <<cache, bound, sent, crossed>>

\* identity.release: whichever bot is bound is deactivated.
ReleasePrior(c) ==
  /\ At(c, "release")
  /\ bound' = NoSession
  /\ Goes(c, "acquire")
  /\ UNCHANGED <<cache, status, sent, crossed>>

\* The calls that wait on the Deferred of an EnsureBound.
Awaits(c, e) == At(c, "await") /\ call[c].entry = e

\* Mistaken variants: acquire is content with any bot that is bound; the hook
\* runs before the state reads acquired.
AcquireSucceeds_WithAnyBot(c) ==
  LET e == call[c].entry IN
  /\ At(c, "acquire")
  /\ bound' = IF bound = NoSession THEN call[c].sid ELSE bound
  /\ status' = [status EXCEPT ![e] = "acquired"]
  /\ call' = [d \in Calls |->
       IF d = c THEN [call[d] EXCEPT !.pc = "hook"]
       ELSE IF Awaits(d, e) THEN [call[d] EXCEPT !.pc = "granted"]
       ELSE call[d]]
  /\ UNCHANGED <<cache, sent, crossed>>
AcquireSucceeds_HookFirst(c) ==
  /\ At(c, "acquire") /\ bound \in {NoSession, call[c].sid}
  /\ bound' = call[c].sid
  /\ Goes(c, "hook")
  /\ UNCHANGED <<cache, status, sent, crossed>>

\* identity.acquire binds, or finds this very bot bound; then the hook runs.
AcquireSucceeds(c) ==
  LET e == call[c].entry IN
  /\ At(c, "acquire") /\ bound \in {NoSession, call[c].sid}
  /\ bound' = call[c].sid
  /\ status' = [status EXCEPT ![e] = "acquired"]
  /\ call' = [d \in Calls |->
       IF d = c THEN [call[d] EXCEPT !.pc = "hook"]
       ELSE IF Awaits(d, e) THEN [call[d] EXCEPT !.pc = "granted"]
       ELSE call[d]]
  /\ UNCHANGED <<cache, sent, crossed>>

\* The mint fails or times out.
AcquireFails(c) ==
  LET e == call[c].entry IN
  /\ At(c, "acquire") /\ bound = NoSession
  /\ status' = [status EXCEPT ![e] = "idle"]
  /\ call' = [d \in Calls |->
       IF d = c \/ Awaits(d, e) THEN Resumed(call[d]) ELSE call[d]]
  /\ UNCHANGED <<cache, bound, sent, crossed>>

\* "already bound to ... - release() before acquiring ...": a defect, which
\* also takes down the hook a re-entrant call runs in.
Dropped(e) == IF e = NoEntry THEN {} ELSE {e}
Dies(c) ==
  LET e == call[c].entry
      dying == {d \in Calls : d = c \/ Awaits(d, e)}
      dropped == {e} \cup UNION {Dropped(call[d].outer) : d \in dying}
  IN
  /\ status' = [f \in Entries |-> IF f \in dropped THEN "idle" ELSE status[f]]
  /\ call' = [d \in Calls |-> IF d \in dying THEN Idle ELSE call[d]]
  /\ UNCHANGED <<cache, bound, sent, crossed>>
AcquireDies(c) ==
  /\ At(c, "acquire") /\ bound \notin {NoSession, call[c].sid}
  /\ Dies(c)

\* afterAcquire: seeding subscriptions passes the bind seam again, under the
\* same session; one level of re-entry is modelled.
HookReenters(c) ==
  /\ At(c, "hook") /\ call[c].outer = NoEntry
  /\ \E e \in Entries :
       /\ EnsureBoundFor(call[c].sid, e)
       /\ call' = [call EXCEPT ![c] = Binding(call[c].sid, e, call[c].entry)]
       /\ crossed' = (crossed \/ Crosses(c, e))
  /\ UNCHANGED <<status, bound, sent>>

InHook(c) == At(c, "hook") \/ At(c, "seeded")

HookReturns(c) ==
  /\ InHook(c)
  /\ WriteOut(c)
  /\ UNCHANGED <<cache, status, bound>>

\* A defect in the hook drops every binding it is part of.
HookDies(c) ==
  /\ InHook(c)
  /\ status' = [f \in Entries |->
       IF f \in {call[c].entry, call[c].outer} THEN "idle" ELSE status[f]]
  /\ call' = [call EXCEPT ![c] = Idle]
  /\ UNCHANGED <<cache, bound, sent, crossed>>

\* A call the Deferred woke runs on once the scheduler gets to it.
WokenWrites(c) ==
  /\ At(c, "granted")
  /\ WriteOut(c)
  /\ UNCHANGED <<cache, status, bound>>

-----------------------------------------------------------------------------
Advance(c) ==
  \/ HaveIdentity(c) \/ AwaitAcquire(c) \/ RunAcquire(c) \/ ReleasePrior(c)
  \/ AcquireSucceeds(c) \/ AcquireFails(c) \/ AcquireDies(c)
  \/ HookReenters(c) \/ HookReturns(c) \/ HookDies(c) \/ WokenWrites(c)

Next ==
  \/ \E s \in Sessions : Peek(s)
  \/ \E c \in Calls, s \in Sessions : StartCall(c, s)
  \/ \E c \in Calls : Advance(c)

Spec == Init /\ [][Next]_vars

\* A call that has begun is run on by the Effect runtime; calls need not come.
FairSpec == Spec /\ \A c \in Calls : WF_vars(Advance(c))

-----------------------------------------------------------------------------
(* Properties *)

TypeOK ==
  /\ slot \in 0 .. minted /\ minted \in 0 .. MaxEntries
  /\ owner \in [Entries -> Sessions \cup {NoSession}]
  /\ prior \in [Entries -> 0 .. MaxEntries]
  /\ status \in [Entries -> {"idle", "pending", "acquired"}]
  /\ bound \in Sessions \cup {NoSession}
  /\ call \in [Calls -> [pc : {"free", "bind", "await", "release", "acquire", "hook", "seeded", "granted"},
                         sid : Sessions \cup {NoSession},
                         entry : 0 .. MaxEntries, outer : 0 .. MaxEntries]]
  /\ sent \subseteq Sessions \X Sessions /\ crossed \in BOOLEAN

\* One EnsureBound never has two acquires in flight, a pending one is always
\* being run by some call, and a call awaits only a pending one: concurrent
\* first callers share one mint, and nobody waits for an answer no one brings.
Runs(c, e) == call[c].entry = e /\ call[c].pc \in {"release", "acquire"}
SingleFlight ==
  /\ \A c, d \in Calls, e \in Entries : Runs(c, e) /\ Runs(d, e) => c = d
  /\ \A e \in Entries : status[e] = "pending" <=> \E c \in Calls : Runs(c, e)
  /\ \A c \in Calls : At(c, "await") => status[call[c].entry] = "pending"

\* The identity the cache reports as bound (boundIdentityIds, the event pump's
\* filter for its own posts and mentions) is the one the adapter holds.
CacheTellsTruth == Current(slot) => bound = owner[slot]

\* A write goes out under the name of the session that made it.
OwnName == \A w \in sent : w[1] = w[2]

\* While no two calls have been under way in different EnsureBounds, both hold:
\* however many calls share one, whatever fails, dies and is tried again, and
\* whoever asks for an identity meanwhile.
TruthUncrossed == crossed \/ CacheTellsTruth
OwnNameUncrossed == crossed \/ OwnName

\* A transition releases the prior identity before it acquires its own: no
\* acquire runs while another session's bot is bound.
TransitionReleases ==
  \A c \in Calls : At(c, "acquire") => bound \in {NoSession, call[c].sid}

\* Every call that begins comes to an end, also when its acquire's hook passes
\* the bind seam again.
EveryCallEnds == \A c \in Calls : ~At(c, "free") ~> At(c, "free")
=============================================================================
