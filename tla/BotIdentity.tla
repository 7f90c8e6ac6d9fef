----------------------------- MODULE BotIdentity -----------------------------
(***************************************************************************)
(* How a seat comes to hold a bot of the realm, and what it learns of the  *)
(* credential it holds (zulip/adapter.ts acquire, release, mintBot,        *)
(* reactivateBot, regenerateBotKey, attachBot, recordRejection), with the  *)
(* realm's users as the in-process realm keeps them (module Realm).        *)
(*                                                                         *)
(* A request to the realm is sent, handled and answered in steps.  It can  *)
(* be lost before it is handled, its answer can be lost after, and it can  *)
(* be handled when the seat has given it up: acquire runs under a timeout, *)
(* and interrupting a request does not take it back.  The minter's own     *)
(* account is always good, so its requests are never refused for the       *)
(* credential.  Channels, messages and queues are left alone here.         *)
(***************************************************************************)
EXTENDS Realm, SequencesExt

CONSTANTS
  Seats,       \* processes with an adapter each
  NameOf,      \* the bot name a seat acquires
  Persistent,  \* the seats whose bot stays active when they release it
  Attachable,  \* the seats that may be configured with a stable key
  MaxTries     \* bound: acquires of one seat

ASSUME BotIdentityAssumption ==
  /\ IsFiniteSet(Seats) /\ NameOf \in [Seats -> Names]
  /\ Attachable \subseteq Persistent /\ Persistent \subseteq Seats
  /\ MaxTries \in Nat

VARIABLES
  seat,     \* each adapter: what it is doing, how often it tried, its boundRef
            \* and credentialRejectedRef, and the call its bot has in flight
  wire,     \* requests of the minter sent and not handled
  stableKey \* the key an attached seat is configured with, 0 for the others

identityVars == <<seat, wire, stableKey>>
allVars == <<vars, seat, wire, stableKey>>

Nobody == [user |-> NoOwner, key |-> 0]
NoCall == [user |-> NoOwner, key |-> 0, stage |-> "none"]
Unbound == [pc |-> "unbound", try |-> 0, bound |-> Nobody, origin |-> "none",
            rejected |-> FALSE, out |-> NoCall]

Attached == {s \in Seats : stableKey[s] # 0}

\* The realm starts with a bot provisioned for every attached name.
Persona(name, key) ==
  [email |-> <<Short[name], "bot">>, name |-> name, kind |-> "bot",
   active |-> TRUE, key |-> key, owner |-> Minter]

IdentityInit ==
  /\ \E attached \in SUBSET Attachable :
       \E order \in SetToSeqs({NameOf[s] : s \in attached}) :
         /\ users = FirstUsers \o [i \in DOMAIN order |-> Persona(order[i], i + 2)]
         /\ stableKey = [s \in Seats |->
              IF s \in attached THEN 2 + (CHOOSE i \in DOMAIN order : order[i] = NameOf[s])
              ELSE 0]
  /\ keys = Len(users)
  /\ StartsQuiet
  /\ seat = [s \in Seats |-> Unbound]
  /\ wire = {}

-----------------------------------------------------------------------------
(* Requests of the minter *)

Request(s, op, u) == [seat |-> s, try |-> seat[s].try, op |-> op, user |-> u]

\* The seat waits for the answer to this very request.
Awaited(r) == seat[r.seat].pc = r.op /\ seat[r.seat].try = r.try

Acquiring == {"find", "mint", "reactivate", "regenerate"}

\* The seat's next request, one at a time.
Sends(s, op, u) ==
  /\ seat' = [seat EXCEPT ![s].pc = op]
  /\ wire' = (wire \ {r \in wire : r.seat = s /\ Awaited(r)}) \cup {Request(s, op, u)}

Fails(s) == seat' = [seat EXCEPT ![s].pc = "unbound"]

\* The new BoundState; credentialRejectedRef starts over.
Binds(s, u, key, origin) ==
  seat' = [seat EXCEPT ![s].pc = "bound", ![s].bound = [user |-> u, key |-> key],
                       ![s].origin = origin, ![s].rejected = FALSE]

-----------------------------------------------------------------------------
(* acquire *)

\* boundRef is empty: anything else answers at once or dies.
Acquire(s) ==
  /\ seat[s].pc = "unbound" /\ seat[s].try < MaxTries
  /\ seat' = [seat EXCEPT ![s].pc = "find", ![s].try = @ + 1]
  /\ wire' = wire \cup {[seat |-> s, try |-> seat[s].try + 1, op |-> "find", user |-> NoOwner]}
  /\ UNCHANGED <<vars, stableKey>>

\* findAnyBotByName: active or not, but a bot.
FoundFor(name) == {u \in DOMAIN users : users[u].name = name /\ users[u].kind # "human"}

\* attachBot binds what is there with the configured key; acquireBot mints,
\* regenerates, or reactivates first.
Find(s) ==
  LET found == FoundFor(NameOf[s]) IN
  \/ /\ s \in Attached
     /\ \/ found = {} /\ Fails(s)
        \/ \E u \in found : Binds(s, u, stableKey[s], "existing")
     /\ wire' = {r \in wire : ~(r.seat = s /\ Awaited(r))}
  \/ /\ s \notin Attached
     /\ \/ found = {} /\ Sends(s, "mint", NoOwner)
        \/ \E u \in found :
             Sends(s, IF users[u].active THEN "regenerate" ELSE "reactivate", u)

HandleFind(r) ==
  /\ r \in wire /\ r.op = "find"
  /\ IF Awaited(r) THEN Find(r.seat) ELSE wire' = wire \ {r} /\ UNCHANGED seat
  /\ UNCHANGED <<vars, stableKey>>

\* What the realm did with a request, or that it refused it: either way the
\* seat hears of it if it still waits and the answer is not lost.
Hears(r, answer) ==
  /\ wire' = wire \ {r}
  /\ \/ Awaited(r) /\ answer
     \/ UNCHANGED seat

HandleMint(r) ==
  /\ r \in wire /\ r.op = "mint"
  /\ \/ /\ PostBots(Minter, NameOf[r.seat])
        /\ Hears(r, Binds(r.seat, Len(users) + 1, keys + 1, "minted"))
     \/ /\ MintRefused(NameOf[r.seat])
        /\ Hears(r, Fails(r.seat))
        /\ UNCHANGED people
  /\ UNCHANGED <<content, delivery, call, stableKey>>

\* The reactivated bot's key is regenerated next, whatever happens meanwhile.
HandleReactivate(r) ==
  /\ r \in wire /\ r.op = "reactivate"
  /\ \/ /\ Reactivate(Minter, r.user)
        /\ \/ Awaited(r) /\ Sends(r.seat, "regenerate", r.user)
           \/ wire' = wire \ {r} /\ UNCHANGED seat
     \/ /\ ReactivateRefused(Minter, r.user)
        /\ Hears(r, Fails(r.seat))
        /\ UNCHANGED people
  /\ UNCHANGED <<content, delivery, call, stableKey>>

\* Mistaken variant: a bot that was found is reported as newly minted.
HandleRegenerate_AsMinted(r) ==
  /\ r \in wire /\ r.op = "regenerate"
  /\ RegenerateKey(Minter, r.user)
  /\ Hears(r, Binds(r.seat, r.user, keys + 1, "minted"))
  /\ UNCHANGED <<content, delivery, call, stableKey>>

HandleRegenerate(r) ==
  /\ r \in wire /\ r.op = "regenerate"
  /\ RegenerateKey(Minter, r.user)
  /\ Hears(r, Binds(r.seat, r.user, keys + 1, "existing"))
  /\ UNCHANGED <<content, delivery, call, stableKey>>

\* A request is lost on its way.
Lost(r) ==
  /\ r \in wire
  /\ wire' = wire \ {r}
  /\ UNCHANGED <<vars, seat, stableKey>>

\* ACQUIRE_MINT_TIMEOUT runs out, or the transport fails: what was sent stays.
AcquireFails(s) ==
  /\ seat[s].pc \in Acquiring
  /\ Fails(s)
  /\ UNCHANGED <<vars, wire, stableKey>>

-----------------------------------------------------------------------------
(* release *)

Releases(s) ==
  seat' = [seat EXCEPT ![s].pc = "unbound", ![s].bound = Nobody, ![s].origin = "none"]

\* A persistent bot is let go without a request.
ReleasePersistent(s) ==
  /\ seat[s].pc = "bound" /\ s \in Persistent
  /\ Releases(s)
  /\ UNCHANGED <<vars, wire, stableKey>>

ReleaseEphemeral(s) ==
  /\ seat[s].pc = "bound" /\ s \notin Persistent
  /\ Sends(s, "delete", seat[s].bound.user)
  /\ UNCHANGED <<vars, stableKey>>

HandleDelete(r) ==
  /\ r \in wire /\ r.op = "delete"
  /\ DeleteBot(Minter, r.user)
  /\ Hears(r, Releases(r.seat))
  /\ UNCHANGED <<content, call, stableKey>>

\* A failed deactivation is swallowed; there is no timeout on it.
ReleaseFails(s) ==
  /\ seat[s].pc = "delete"
  /\ Releases(s)
  /\ UNCHANGED <<vars, wire, stableKey>>

-----------------------------------------------------------------------------
(* Calls under the bound credential: watchBoundHttp *)

Works(credential) ==
  \E u \in DOMAIN users :
    users[u].active /\ u = credential.user /\ users[u].key = credential.key

\* While a release waits for its answer the binding still stands.
IsBound(s) == seat[s].pc \in {"bound", "delete"}

CallOut(s) ==
  /\ IsBound(s) /\ seat[s].out = NoCall
  /\ seat' = [seat EXCEPT ![s].out =
       [user |-> seat[s].bound.user, key |-> seat[s].bound.key, stage |-> "sent"]]
  /\ UNCHANGED <<vars, wire, stableKey>>

CallHandled(s) ==
  /\ seat[s].out.stage = "sent"
  /\ seat' = [seat EXCEPT ![s].out.stage =
       IF Works(seat[s].out) THEN "served" ELSE "refused"]
  /\ UNCHANGED <<vars, wire, stableKey>>

\* recordRejection: one flag for whatever credential the adapter holds by now.
CallAnswered(s) ==
  /\ seat[s].out.stage \in {"served", "refused"}
  /\ seat' = [seat EXCEPT ![s].out = NoCall,
                          ![s].rejected = @ \/ seat[s].out.stage = "refused"]
  /\ UNCHANGED <<vars, wire, stableKey>>

-----------------------------------------------------------------------------
(* The process, and others *)

Crash(s) ==
  /\ seat[s].pc # "unbound"
  /\ seat' = [seat EXCEPT ![s] = [Unbound EXCEPT !.try = seat[s].try]]
  /\ UNCHANGED <<vars, wire, stableKey>>

\* An administrator deactivates a bot or revokes its key; a human takes a name.
\* Whoever makes users by other ways than this process keeps to the rule of a
\* realm that no name is taken twice. The fixture addUser does not ask for it
\* (in-process-realm.ts:1379-1390), so it is a condition set here.
Outside ==
  /\ \/ \E u \in DOMAIN users : users[u].kind = "bot" /\
          \/ users[u].active /\ Deactivate(u)
          \/ RevokeApiKey(u) /\ UNCHANGED delivery
     \/ \E n \in Names, k \in Kinds :
          /\ \A u \in DOMAIN users :
               users[u].name = n => ~users[u].active /\ users[u].kind # k
          /\ AddUser(n, k) /\ UNCHANGED delivery
  /\ UNCHANGED <<content, call, identityVars>>

SeatNext(s) ==
  \/ Acquire(s) \/ AcquireFails(s)
  \/ ReleasePersistent(s) \/ ReleaseEphemeral(s) \/ ReleaseFails(s)
  \/ CallOut(s) \/ CallHandled(s) \/ CallAnswered(s)
  \/ Crash(s)

WireNext ==
  \E r \in wire :
    \/ HandleFind(r) \/ HandleMint(r) \/ HandleReactivate(r)
    \/ HandleRegenerate(r) \/ HandleDelete(r) \/ Lost(r)

IdentityNext == WireNext \/ (\E s \in Seats : SeatNext(s)) \/ Outside

IdentitySpec == IdentityInit /\ [][IdentityNext]_allVars

-----------------------------------------------------------------------------
(* Properties *)

\* A seat is bound or releasing exactly when it holds a credential, and holds
\* one of a bot named as it asked (BoundState).
IdentityTypeOK ==
  /\ users \in Seq(RealmUser)
  /\ \A s \in Seats :
       /\ seat[s].pc \in Acquiring \cup {"unbound", "bound", "delete"}
       /\ seat[s].try \in 0 .. MaxTries
       /\ IsBound(s) = (seat[s].bound # Nobody)
       /\ IsBound(s) => users[seat[s].bound.user].name = NameOf[s]
       /\ IsBound(s) => users[seat[s].bound.user].kind = "bot"
  /\ \A r \in wire : r.seat \in Seats /\ r.try \in 1 .. MaxTries

\* However the finds, mints and reactivations of several seats interleave, fail
\* and land late, a name has one bot (findAnyBotByName, mintBot).
OneBotPerName ==
  \A u, v \in DOMAIN users :
    /\ users[u].kind = "bot" /\ users[v].kind = "bot"
    /\ users[u].name = users[v].name
    => u = v

\* A seat that is told its bot is newly minted is the first to hold it: no seat
\* was told before that the bot is its own (IdentityOrigin 'minted').
NewlyMintedIsUnused ==
  \A s, t \in Seats :
    /\ IsBound(s) /\ seat[s].origin = "minted"
    /\ IsBound(t) /\ seat[t].bound.user = seat[s].bound.user /\ t # s
    => /\ seat[t].origin = "existing"
       /\ seat[t].bound.key > seat[s].bound.key

\* No two seats hold the same working key unless an operator gave both the
\* stable one (regenerateBotKey rotates, attachBot never does).
KeysAreNotShared ==
  \A s, t \in Seats :
    /\ s # t /\ IsBound(s) /\ IsBound(t)
    /\ seat[s].bound = seat[t].bound
    => {s, t} \subseteq Attached

\* "Whether the realm has refused the bound credential as invalid since this
\* adapter bound it" (core/ports.ts credentialRejected).
RejectedIsOfTheBound ==
  [][\A s \in Seats :
       /\ seat'[s].rejected /\ ~seat[s].rejected /\ IsBound(s)
       => seat[s].out.user = seat[s].bound.user /\ seat[s].out.key = seat[s].bound.key]_allVars
=============================================================================
