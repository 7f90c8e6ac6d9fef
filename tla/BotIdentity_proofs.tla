--------------------------- MODULE BotIdentity_proofs ---------------------------
(***************************************************************************)
(* Proofs about BotIdentity, for any number of seats, names, users and     *)
(* keys: a name never comes to have two bots, two seats never come to hold *)
(* the same credential unless both are configured with it, and a bot that  *)
(* is called new was held by nobody.  And about the realm it extends, for  *)
(* any number of clients, queues and events: no two active users have one  *)
(* name, a queue keeps what its client has not seen, and nothing but a     *)
(* heartbeat is queued for a bot that is deactivated.                      *)
(***************************************************************************)
EXTENDS BotIdentity, FiniteSetTheorems, SequenceTheorems, WellFoundedInduction,
        NaturalsInduction, TLAPS

\* RealmUser without the bounds of the exploration.
Mail == (Range(Short) \cup {"Minter", "Notification Bot"}) \X {"bot", "human"}
AnyName == Names \cup {"Minter", "Notification Bot"}
AnyUser ==
  [email : Mail, name : AnyName,
   kind : {"human", "bot", "notification-bot"},
   active : BOOLEAN, key : Nat, owner : Nat]

\* What a mint relies on: a bot's e-mail is built from its name, so a name that
\* has a bot is refused also when that bot is inactive.
MailIsOfTheName ==
  \A u \in DOMAIN users : users[u].kind = "bot" => users[u].email = <<Short[users[u].name], "bot">>

AskedBySeats == \A r \in wire : r.seat \in Seats

BotsApart ==
  /\ users \in Seq(AnyUser) /\ keys \in Nat
  /\ AskedBySeats /\ MailIsOfTheName /\ OneBotPerName

LEMMA Constants ==
  /\ DOMAIN Short = Names /\ Kinds \subseteq {"human", "bot"}
  /\ NameOf \in [Seats -> Names] /\ IsFiniteSet(Seats) /\ Attachable \subseteq Seats
  BY RealmAssumption, BotIdentityAssumption DEF RealmAssumption, BotIdentityAssumption

-----------------------------------------------------------------------------
(* Changes of the users *)

\* Who is who stays as it was.
SameUsers ==
  /\ users' \in Seq(AnyUser) /\ keys' \in Nat /\ DOMAIN users' = DOMAIN users
  /\ \A u \in DOMAIN users :
       /\ users'[u].name = users[u].name /\ users'[u].kind = users[u].kind
       /\ users'[u].email = users[u].email

\* One more user, who is no bot or the first bot of its name.
OneMore(name, kind) ==
  \E owner \in Nat :
    /\ users' = Append(users, NewUser(name, kind, owner)) /\ keys' = keys + 1
    /\ name \in Names /\ kind \in {"human", "bot"}
    /\ kind = "bot" => \A u \in DOMAIN users : users[u].kind = "bot" => users[u].name # name

LEMMA SameUsersKeep ==
  ASSUME BotsApart, SameUsers, AskedBySeats'
  PROVE  BotsApart'
  BY DEF BotsApart, SameUsers, MailIsOfTheName, OneBotPerName

LEMMA NewUserType ==
  ASSUME keys \in Nat, NEW name \in Names, NEW kind \in {"human", "bot"}, NEW owner \in Nat
  PROVE  /\ NewUser(name, kind, owner) \in AnyUser
         /\ NewUser(name, kind, owner).name = name /\ NewUser(name, kind, owner).kind = kind
         /\ NewUser(name, kind, owner).email = <<Short[name], kind>>
<1>1. <<Short[name], kind>> \in Mail
  BY Constants DEF Range, Mail
<1>2. name \in AnyName
  BY DEF AnyName
<1> QED
  BY <1>1, <1>2 DEF NewUser, AnyUser

LEMMA OneMoreKeeps ==
  ASSUME BotsApart, NEW name, NEW kind, OneMore(name, kind), AskedBySeats'
  PROVE  BotsApart'
<1>1. PICK owner \in Nat : users' = Append(users, NewUser(name, kind, owner))
  BY DEF OneMore
<1> DEFINE new == NewUser(name, kind, owner)
<1>2. name \in Names /\ kind \in {"human", "bot"} /\ keys' \in Nat /\ users \in Seq(AnyUser)
  BY DEF OneMore, BotsApart
<1>3. /\ new \in AnyUser /\ new.name = name /\ new.kind = kind
      /\ new.email = <<Short[name], kind>>
  BY <1>2, NewUserType DEF BotsApart
<1> HIDE DEF new
<1>4. /\ users' \in Seq(AnyUser) /\ Len(users') = Len(users) + 1
      /\ users'[Len(users) + 1] = new
      /\ \A u \in 1 .. Len(users) : users'[u] = users[u]
  BY <1>1, <1>2, <1>3, AppendProperties DEF new
<1>5. DOMAIN users = 1 .. Len(users) /\ Len(users) \in Nat /\ DOMAIN users' = 1 .. Len(users) + 1
  BY <1>2, <1>4
<1>6. MailIsOfTheName'
  BY <1>3, <1>4, <1>5 DEF MailIsOfTheName, BotsApart
<1>7. OneBotPerName'
  <2> SUFFICES ASSUME NEW u \in DOMAIN users', NEW v \in DOMAIN users',
                      users'[u].kind = "bot", users'[v].kind = "bot",
                      users'[u].name = users'[v].name
               PROVE  u = v
    BY DEF OneBotPerName
  <2>1. CASE u \in DOMAIN users /\ v \in DOMAIN users
    BY <2>1, <1>4, <1>5 DEF BotsApart, OneBotPerName
  <2>2. CASE u = Len(users) + 1 /\ v \in DOMAIN users
    BY <2>2, <1>3, <1>4, <1>5 DEF OneMore
  <2>3. CASE u \in DOMAIN users /\ v = Len(users) + 1
    BY <2>3, <1>3, <1>4, <1>5 DEF OneMore
  <2>4. CASE u = Len(users) + 1 /\ v = Len(users) + 1
    BY <2>4
  <2> QED
    BY <1>5, <2>1, <2>2, <2>3, <2>4
<1> QED
  BY <1>2, <1>4, <1>6, <1>7 DEF BotsApart

LEMMA Changed ==
  ASSUME NEW r \in AnyUser, NEW k \in Nat, NEW b \in BOOLEAN
  PROVE  /\ [r EXCEPT !.key = k] \in AnyUser /\ [r EXCEPT !.active = b] \in AnyUser
         /\ [r EXCEPT !.key = k].name = r.name /\ [r EXCEPT !.active = b].name = r.name
         /\ [r EXCEPT !.key = k].kind = r.kind /\ [r EXCEPT !.active = b].kind = r.kind
         /\ [r EXCEPT !.key = k].email = r.email /\ [r EXCEPT !.active = b].email = r.email
  BY DEF AnyUser

\* A new key, or a change of being active, leaves everyone who they are.
LEMMA KeyOrStatus ==
  ASSUME BotsApart, NEW u,
         \/ users' = [users EXCEPT ![u].key = keys + 1] /\ keys' = keys + 1
         \/ \E b \in BOOLEAN : users' = [users EXCEPT ![u].active = b] /\ UNCHANGED keys
  PROVE  SameUsers
<1>1. users \in [1 .. Len(users) -> AnyUser] /\ Len(users) \in Nat /\ keys + 1 \in Nat /\ keys \in Nat
  BY DEF BotsApart
<1>2. PICK f \in [AnyUser -> AnyUser] :
        /\ users' = [w \in DOMAIN users |-> IF w = u THEN f[users[w]] ELSE users[w]]
        /\ keys' \in Nat
        /\ \A r \in AnyUser : f[r].name = r.name /\ f[r].kind = r.kind /\ f[r].email = r.email
  <2>1. CASE users' = [users EXCEPT ![u].key = keys + 1] /\ keys' = keys + 1
    <3> DEFINE f == [r \in AnyUser |-> [r EXCEPT !.key = keys + 1]]
    <3>1. f \in [AnyUser -> AnyUser]
      BY <1>1, Changed
    <3>2. \A r \in AnyUser : f[r].name = r.name /\ f[r].kind = r.kind /\ f[r].email = r.email
      BY <1>1, Changed
    <3>3. users' = [w \in DOMAIN users |-> IF w = u THEN f[users[w]] ELSE users[w]]
      BY <1>1, <2>1
    <3> QED
      BY <1>1, <2>1, <3>1, <3>2, <3>3
  <2>2. ASSUME NEW b \in BOOLEAN, users' = [users EXCEPT ![u].active = b], UNCHANGED keys
        PROVE  \E f \in [AnyUser -> AnyUser] :
                 /\ users' = [w \in DOMAIN users |-> IF w = u THEN f[users[w]] ELSE users[w]]
                 /\ keys' \in Nat
                 /\ \A r \in AnyUser : f[r].name = r.name /\ f[r].kind = r.kind
                                        /\ f[r].email = r.email
    <3> DEFINE f == [r \in AnyUser |-> [r EXCEPT !.active = b]]
    <3>1. f \in [AnyUser -> AnyUser]
      BY Changed
    <3>2. \A r \in AnyUser : f[r].name = r.name /\ f[r].kind = r.kind /\ f[r].email = r.email
      BY Changed
    <3>3. users' = [w \in DOMAIN users |-> IF w = u THEN f[users[w]] ELSE users[w]]
      BY <1>1, <2>2
    <3> QED
      BY <1>1, <2>2, <3>1, <3>2, <3>3
  <2> QED
    BY <2>1, <2>2
<1>3. users' \in [1 .. Len(users) -> AnyUser]
  BY <1>1, <1>2
<1>4. users' \in Seq(AnyUser)
  BY <1>1, <1>3
<1> QED
  BY <1>1, <1>2, <1>3, <1>4 DEF SameUsers

-----------------------------------------------------------------------------
(* Steps *)

LEMMA UntouchedUsers ==
  ASSUME BotsApart, UNCHANGED people, AskedBySeats' PROVE BotsApart'
  BY SameUsersKeep DEF BotsApart, SameUsers, people

LEMMA SendsAsks ==
  ASSUME AskedBySeats, NEW s \in Seats, NEW op, NEW u, Sends(s, op, u)
  PROVE  AskedBySeats'
  BY DEF AskedBySeats, Sends, Request

LEMMA HearsAsks ==
  ASSUME AskedBySeats, NEW r, wire' = wire \ {r} PROVE AskedBySeats'
  BY DEF AskedBySeats

LEMMA SeatSteps ==
  ASSUME BotsApart, NEW s \in Seats, SeatNext(s) PROVE BotsApart'
<1>1. UNCHANGED people
  BY DEF SeatNext, Acquire, AcquireFails, ReleasePersistent, ReleaseEphemeral, ReleaseFails,
         CallOut, CallHandled, CallAnswered, Crash, vars, people
<1>2. AskedBySeats'
  <2>1. CASE Acquire(s)
    BY <2>1 DEF Acquire, AskedBySeats, BotsApart
  <2>2. CASE ReleaseEphemeral(s)
    BY <2>2, SendsAsks DEF ReleaseEphemeral, BotsApart
  <2>3. CASE UNCHANGED wire
    BY <2>3 DEF AskedBySeats, BotsApart
  <2> QED
    BY <2>1, <2>2, <2>3
    DEF SeatNext, AcquireFails, ReleasePersistent, ReleaseFails, CallOut, CallHandled,
        CallAnswered, Crash
<1> QED
  BY <1>1, <1>2, UntouchedUsers

LEMMA MintStep ==
  ASSUME BotsApart, NEW r, HandleMint(r) PROVE BotsApart'
<1>1. AskedBySeats' /\ r.seat \in Seats
  BY HearsAsks DEF HandleMint, Hears, BotsApart, AskedBySeats
<1>2. CASE UNCHANGED people
  BY <1>1, <1>2, UntouchedUsers
<1>3. CASE PostBots(Minter, NameOf[r.seat])
  <2> DEFINE name == NameOf[r.seat]
  <2>1. name \in Names
    BY <1>1, Constants
  <2> HIDE DEF name
  <2>2. \A u \in DOMAIN users : users[u].kind = "bot" => users[u].name # name
    BY <1>3 DEF PostBots, MintRefused, BotsApart, MailIsOfTheName, name
  <2>3. OneMore(name, "bot")
    BY <1>3, <2>1, <2>2 DEF OneMore, PostBots, Minter, name
  <2> QED
    BY <1>1, <2>3, OneMoreKeeps
<1> QED
  BY <1>2, <1>3 DEF HandleMint

LEMMA WireSteps ==
  ASSUME BotsApart, NEW r,
         \/ HandleFind(r) \/ HandleMint(r) \/ HandleReactivate(r)
         \/ HandleRegenerate(r) \/ HandleDelete(r) \/ Lost(r)
  PROVE  BotsApart'
<1>1. r \in wire /\ r.seat \in Seats /\ AskedBySeats
  BY DEF HandleFind, HandleMint, HandleReactivate, HandleRegenerate, HandleDelete, Lost,
         BotsApart, AskedBySeats
<1>2. CASE HandleFind(r)
  <2>1. AskedBySeats'
    <3>1. CASE Find(r.seat)
      <4>1. CASE r.seat \in Attached
        BY <1>1, <3>1, <4>1 DEF Find, AskedBySeats
      <4>2. CASE r.seat \notin Attached
        BY <1>1, <3>1, <4>2, SendsAsks DEF Find
      <4> QED
        BY <4>1, <4>2
    <3>2. CASE wire' = wire \ {r}
      BY <1>1, <3>2, HearsAsks
    <3> QED
      BY <1>2, <3>1, <3>2 DEF HandleFind
  <2> QED
    BY <1>2, <2>1, UntouchedUsers DEF HandleFind, vars, people
<1>3. CASE HandleMint(r)
  BY <1>3, MintStep
<1>4. CASE HandleReactivate(r)
  <2>1. AskedBySeats'
    BY <1>1, <1>4, SendsAsks, HearsAsks DEF HandleReactivate, Hears
  <2>2. CASE Reactivate(Minter, r.user)
    BY <2>1, <2>2, KeyOrStatus, SameUsersKeep DEF Reactivate
  <2>3. CASE UNCHANGED people
    BY <2>1, <2>3, UntouchedUsers
  <2> QED
    BY <1>4, <2>2, <2>3 DEF HandleReactivate
<1>5. CASE HandleRegenerate(r)
  BY <1>1, <1>5, HearsAsks, KeyOrStatus, SameUsersKeep DEF HandleRegenerate, RegenerateKey, Hears
<1>6. CASE HandleDelete(r)
  BY <1>1, <1>6, HearsAsks, KeyOrStatus, SameUsersKeep
  DEF HandleDelete, DeleteBot, Deactivate, Hears
<1>7. CASE Lost(r)
  BY <1>1, <1>7, HearsAsks, UntouchedUsers DEF Lost, vars, people
<1> QED
  BY <1>2, <1>3, <1>4, <1>5, <1>6, <1>7

LEMMA OutsideSteps ==
  ASSUME BotsApart, Outside PROVE BotsApart'
<1>1. AskedBySeats'
  BY DEF Outside, identityVars, AskedBySeats, BotsApart
<1>2. ASSUME NEW u, Deactivate(u) \/ RevokeApiKey(u) PROVE BotsApart'
  BY <1>1, <1>2, KeyOrStatus, SameUsersKeep DEF Deactivate, RevokeApiKey
<1>3. ASSUME NEW n \in Names, NEW k \in Kinds, AddUser(n, k),
             \A u \in DOMAIN users : users[u].name = n => ~users[u].active /\ users[u].kind # k
      PROVE  BotsApart'
  <2>1. k \in {"human", "bot"}
    BY Constants
  <2>2. OneMore(n, k)
    BY <1>3, <2>1 DEF AddUser, OneMore, Minter, NoOwner
  <2> QED
    BY <1>1, <2>2, OneMoreKeeps
<1> QED
  BY <1>2, <1>3 DEF Outside

-----------------------------------------------------------------------------
(* The start *)

LEMMA FirstOnes ==
  /\ FirstUsers \in Seq(AnyUser) /\ Len(FirstUsers) = 2
  /\ FirstUsers[1].kind # "bot" /\ FirstUsers[2].kind # "bot"
<1>1. /\ <<"Minter", "human">> \in Mail /\ <<"Notification Bot", "bot">> \in Mail
      /\ "Minter" \in AnyName /\ "Notification Bot" \in AnyName
  BY DEF Mail, AnyName
<1> DEFINE minter == [email |-> <<"Minter", "human">>, name |-> "Minter", kind |-> "human",
                      active |-> TRUE, key |-> 1, owner |-> NoOwner]
           notifier == [email |-> <<"Notification Bot", "bot">>, name |-> "Notification Bot",
                        kind |-> "notification-bot", active |-> TRUE, key |-> 2,
                        owner |-> NoOwner]
<1>2. /\ minter \in AnyUser /\ minter.kind # "bot"
      /\ notifier \in AnyUser /\ notifier.kind # "bot"
  BY <1>1 DEF AnyUser, NoOwner
<1>3. FirstUsers = <<minter, notifier>>
  BY DEF FirstUsers
<1> HIDE DEF minter, notifier
<1> QED
  BY <1>2, <1>3

\* The realm of the start: its two own users and a bot for each attached name,
\* in some order.
StartsWith(attached, n, order) ==
  /\ order \in [1 .. n -> Names] /\ \A i, j \in 1 .. n : i # j => order[i] # order[j]
  /\ {NameOf[s] : s \in attached} = {order[i] : i \in 1 .. n}
  /\ users \in Seq(AnyUser) /\ Len(users) = 2 + n /\ keys = 2 + n
  /\ users[1].kind # "bot" /\ users[2].kind # "bot"
  /\ \A i \in 3 .. 2 + n :
       users[i].name = order[i - 2] /\ users[i].email = <<Short[order[i - 2]], "bot">>
  /\ stableKey = [s \in Seats |->
       IF s \in attached THEN 2 + (CHOOSE i \in DOMAIN order : order[i] = NameOf[s]) ELSE 0]

LEMMA StartingRealm ==
  ASSUME IdentityInit
  PROVE  \E attached \in SUBSET Attachable, n \in Nat : \E order : StartsWith(attached, n, order)
<1>1. PICK attached \in SUBSET Attachable :
        \E order \in SetToSeqs({NameOf[s] : s \in attached}) :
          /\ users = FirstUsers \o [i \in DOMAIN order |-> Persona(order[i], i + 2)]
          /\ stableKey = [s \in Seats |->
               IF s \in attached THEN 2 + (CHOOSE i \in DOMAIN order : order[i] = NameOf[s]) ELSE 0]
  BY DEF IdentityInit
<1> DEFINE named == {NameOf[s] : s \in attached}
<1>2. PICK order \in SetToSeqs(named) :
        /\ users = FirstUsers \o [i \in DOMAIN order |-> Persona(order[i], i + 2)]
        /\ stableKey = [s \in Seats |->
             IF s \in attached THEN 2 + (CHOOSE i \in DOMAIN order : order[i] = NameOf[s]) ELSE 0]
  BY <1>1
<1>3. named \subseteq Names /\ IsFiniteSet(named)
  <2>1. attached \subseteq Seats
    BY Constants
  <2>2. IsFiniteSet(attached)
    BY <2>1, Constants, FS_Subset
  <2>3. named \subseteq Names
    BY <2>1, Constants
  <2>4. IsFiniteSet(named)
    <3>1. [s \in attached |-> NameOf[s]] \in Surjection(attached, named)
      BY DEF Surjection
    <3> QED
      BY <2>2, <3>1, FS_Surjection
  <2> QED
    BY <2>3, <2>4
<1> HIDE DEF named
<1>4. PICK n \in Nat : /\ order \in [1 .. n -> Names]
                       /\ \A i, j \in 1 .. n : i # j => order[i] # order[j]
                       /\ named = {order[i] : i \in 1 .. n}
  <2>1. Cardinality(named) \in Nat
    BY <1>3, FS_CardinalityType
  <2>2. order \in Injection(1 .. Cardinality(named), named)
    BY DEF SetToSeqs, Injection, IsInjective
  <2>3. Cardinality(1 .. Cardinality(named)) = Cardinality(named)
    BY <2>1, FS_Interval
  <2>4. order \in Surjection(1 .. Cardinality(named), named)
    BY <1>3, <2>2, <2>3, FS_Injection
  <2>5. /\ order \in [1 .. Cardinality(named) -> named]
        /\ \A i, j \in 1 .. Cardinality(named) : i # j => order[i] # order[j]
    BY DEF SetToSeqs
  <2>6. \A x \in named : \E i \in 1 .. Cardinality(named) : order[i] = x
    BY <2>4 DEF Surjection
  <2> QED
    BY <1>3, <2>1, <2>5, <2>6
<1> DEFINE personas == [i \in DOMAIN order |-> Persona(order[i], i + 2)]
<1>5. /\ personas \in Seq(AnyUser) /\ Len(personas) = n
      /\ \A i \in 1 .. n : personas[i].name = order[i] /\ personas[i].kind = "bot"
                           /\ personas[i].email = <<Short[order[i]], "bot">>
  <2>1. \A i \in 1 .. n : <<Short[order[i]], "bot">> \in Mail /\ order[i] \in AnyName
    BY <1>4, Constants DEF Range, Mail, AnyName
  <2>2. personas \in [1 .. n -> AnyUser]
    BY <1>4, <2>1 DEF Persona, AnyUser, Minter
  <2>3. personas \in Seq(AnyUser) /\ Len(personas) = n
    BY <1>4, <2>2
  <2> QED
    BY <1>4, <2>3 DEF Persona
<1> HIDE DEF personas
<1>6. users = FirstUsers \o personas
  BY <1>2 DEF personas
<1>7. /\ users \in Seq(AnyUser) /\ Len(users) = 2 + n
      /\ users[1].kind # "bot" /\ users[2].kind # "bot"
      /\ \A i \in 3 .. 2 + n : users[i] = personas[i - 2]
  <2>1. /\ FirstUsers \o personas \in Seq(AnyUser)
        /\ Len(FirstUsers \o personas) = Len(FirstUsers) + Len(personas)
        /\ \A i \in 1 .. Len(FirstUsers) + Len(personas) :
             (FirstUsers \o personas)[i] = IF i <= Len(FirstUsers) THEN FirstUsers[i]
                                            ELSE personas[i - Len(FirstUsers)]
    <3>1. FirstUsers \in Seq(AnyUser) /\ personas \in Seq(AnyUser)
      BY <1>5, FirstOnes
    <3> QED
      BY <3>1, ConcatProperties
  <2>2. Len(FirstUsers) = 2 /\ Len(personas) = n
    BY <1>5, FirstOnes
  <2>3. /\ users \in Seq(AnyUser) /\ Len(users) = 2 + n
        /\ \A i \in 1 .. 2 + n :
             users[i] = IF i <= 2 THEN FirstUsers[i] ELSE personas[i - 2]
    BY <1>6, <2>1, <2>2
  <2> QED
    BY <1>4, <2>3, FirstOnes
<1>8. keys = 2 + n
  BY <1>7 DEF IdentityInit
<1>9. \A i \in 3 .. 2 + n :
        users[i].name = order[i - 2] /\ users[i].email = <<Short[order[i - 2]], "bot">>
  BY <1>4, <1>5, <1>7
<1>10. {NameOf[s] : s \in attached} = {order[i] : i \in 1 .. n}
  BY <1>4 DEF named
<1>11. StartsWith(attached, n, order)
  BY <1>2, <1>4, <1>7, <1>8, <1>9, <1>10 DEF StartsWith
<1> QED
  BY <1>11

LEMMA StartsApart == IdentityInit => BotsApart
<1> SUFFICES ASSUME IdentityInit PROVE BotsApart
  OBVIOUS
<1>1. PICK attached \in SUBSET Attachable, n \in Nat : \E order : StartsWith(attached, n, order)
  BY StartingRealm
<1>2. PICK order : StartsWith(attached, n, order)
  BY <1>1
<1>3. DOMAIN users = 1 .. 2 + n
  BY <1>2 DEF StartsWith
<1>4. \A u \in DOMAIN users : users[u].kind = "bot" =>
        /\ u - 2 \in 1 .. n /\ users[u].name = order[u - 2]
        /\ users[u].email = <<Short[users[u].name], "bot">>
  BY <1>2, <1>3 DEF StartsWith
<1>5. users \in Seq(AnyUser) /\ keys \in Nat
  BY <1>2 DEF StartsWith
<1>6. AskedBySeats
  BY DEF IdentityInit, AskedBySeats
<1>7. MailIsOfTheName
  BY <1>4 DEF MailIsOfTheName
<1>8. OneBotPerName
  <2> SUFFICES ASSUME NEW u \in DOMAIN users, NEW v \in DOMAIN users,
                      users[u].kind = "bot", users[v].kind = "bot",
                      users[u].name = users[v].name
               PROVE  u = v
    BY DEF OneBotPerName
  <2>1. u - 2 = v - 2
    BY <1>2, <1>4 DEF StartsWith
  <2> QED
    BY <1>3, <2>1
<1> QED
  BY <1>5, <1>6, <1>7, <1>8 DEF BotsApart

-----------------------------------------------------------------------------
LEMMA StepsKeepApart == BotsApart /\ [IdentityNext]_allVars => BotsApart'
<1> SUFFICES ASSUME BotsApart, [IdentityNext]_allVars PROVE BotsApart'
  OBVIOUS
<1>1. CASE UNCHANGED allVars
  BY <1>1, UntouchedUsers DEF allVars, vars, people, AskedBySeats, BotsApart
<1>2. CASE IdentityNext
  BY <1>2, WireSteps, SeatSteps, OutsideSteps DEF IdentityNext, WireNext
<1> QED
  BY <1>1, <1>2

\* However finds, mints and reactivations of any number of seats interleave, are
\* lost or land late, and whatever an administrator does, a name never has two
\* bots (adapter.ts findAnyBotByName, mintBot; in-process-realm.ts POST /bots).
THEOREM NamesHaveOneBot == IdentitySpec => []OneBotPerName
<1>1. BotsApart => OneBotPerName
  BY DEF BotsApart
<1> QED
  BY StartsApart, StepsKeepApart, <1>1, PTL DEF IdentitySpec

-----------------------------------------------------------------------------
(* Keys *)

SeatRecord ==
  [pc : Acquiring \cup {"unbound", "bound", "delete"}, try : Nat,
   bound : [user : Nat, key : Nat], origin : {"none", "minted", "existing"},
   rejected : BOOLEAN,
   out : [user : Nat, key : Nat, stage : {"none", "sent", "served", "refused"}]]

\* A seat holds the key it is configured with, or one the realm made since.
Configured(s) == s \in Attached /\ seat[s].bound.key = stableKey[s]
MadeSince(s) == \A t \in Seats : stableKey[t] < seat[s].bound.key

KeysApart ==
  /\ \A s \in Seats : IsBound(s) =>
       seat[s].bound.key <= keys /\ (Configured(s) \/ MadeSince(s))
  /\ \A s, t \in Seats :
       s # t /\ IsBound(s) /\ IsBound(t) /\ seat[s].bound.key = seat[t].bound.key
         => Configured(s) /\ Configured(t)

KeysInOrder ==
  /\ seat \in [Seats -> SeatRecord] /\ keys \in Nat
  /\ stableKey \in [Seats -> Nat] /\ \A t \in Seats : stableKey[t] <= keys
  /\ KeysApart

\* Nobody is bound by the step who was not, or with another key.
KeepsBindings ==
  /\ seat' \in [Seats -> SeatRecord] /\ UNCHANGED stableKey /\ keys' \in Nat /\ keys <= keys'
  /\ \A t \in Seats :
       seat'[t].pc \in {"bound", "delete"} =>
         seat[t].pc \in {"bound", "delete"} /\ seat'[t].bound = seat[t].bound

LEMMA KeepsBindingsKeep ==
  ASSUME KeysInOrder, KeepsBindings PROVE KeysInOrder'
<1>1. KeysApart'
  <2>1. \A t \in Seats : IsBound(t)' =>
          /\ IsBound(t) /\ seat'[t].bound = seat[t].bound
          /\ Configured(t)' = Configured(t) /\ MadeSince(t)' = MadeSince(t)
    BY DEF KeepsBindings, IsBound, Configured, MadeSince, Attached
  <2>2. \A t \in Seats : IsBound(t) => seat[t].bound.key \in Nat
    BY DEF KeysInOrder, SeatRecord
  <2>3. \A s \in Seats : IsBound(s)' =>
          seat'[s].bound.key <= keys' /\ (Configured(s)' \/ MadeSince(s)')
    BY <2>1, <2>2 DEF KeysInOrder, KeysApart, KeepsBindings
  <2>4. \A s, t \in Seats :
          s # t /\ IsBound(s)' /\ IsBound(t)' /\ seat'[s].bound.key = seat'[t].bound.key
            => Configured(s)' /\ Configured(t)'
    BY <2>1 DEF KeysInOrder, KeysApart
  <2> QED
    BY <2>3, <2>4 DEF KeysApart
<1>2. \A t \in Seats : stableKey'[t] <= keys'
  BY DEF KeysInOrder, KeepsBindings
<1> QED
  BY <1>1, <1>2 DEF KeysInOrder, KeepsBindings

\* One seat is bound, with a key just made or with its own.
LEMMA BindsKeep ==
  ASSUME KeysInOrder, NEW s \in Seats, NEW u \in Nat, NEW key \in Nat,
         NEW origin \in {"minted", "existing"}, Binds(s, u, key, origin), UNCHANGED stableKey,
         \/ keys' = keys + 1 /\ key = keys + 1
         \/ UNCHANGED keys /\ s \in Attached /\ key = stableKey[s]
  PROVE  KeysInOrder'
<1>1. /\ seat \in [Seats -> SeatRecord] /\ keys \in Nat /\ keys' \in Nat /\ keys <= keys'
      /\ stableKey \in [Seats -> Nat] /\ \A t \in Seats : stableKey[t] <= keys
  BY DEF KeysInOrder
<1>2. /\ seat' \in [Seats -> SeatRecord]
      /\ seat'[s].bound.key = key
      /\ \A t \in Seats \ {s} : seat'[t] = seat[t]
  <2>1. [seat[s] EXCEPT !.pc = "bound", !.bound = [user |-> u, key |-> key],
                        !.origin = origin, !.rejected = FALSE] \in SeatRecord
    BY <1>1 DEF SeatRecord
  <2>2. seat' \in [Seats -> SeatRecord] /\ \A t \in Seats \ {s} : seat'[t] = seat[t]
    BY <1>1, <2>1 DEF Binds
  <2>3. seat'[s].bound = [user |-> u, key |-> key]
    BY <1>1 DEF Binds, SeatRecord
  <2> QED
    BY <2>2, <2>3
<1>3. \A t \in Seats \ {s} :
        /\ IsBound(t)' = IsBound(t) /\ seat'[t].bound.key = seat[t].bound.key
        /\ Configured(t)' = Configured(t) /\ MadeSince(t)' = MadeSince(t)
  BY <1>2 DEF IsBound, Configured, MadeSince, Attached
<1>4. \A t \in Seats : IsBound(t) => seat[t].bound.key \in Nat
  BY <1>1 DEF SeatRecord
<1>5. CASE keys' = keys + 1 /\ key = keys + 1
  <2>1. MadeSince(s)'
    BY <1>1, <1>2, <1>5 DEF MadeSince
  <2>2. \A t \in Seats \ {s} : IsBound(t) => seat[t].bound.key # key
    BY <1>1, <1>4, <1>5 DEF KeysInOrder, KeysApart
  <2>3. \A t \in Seats : IsBound(t)' =>
          seat'[t].bound.key <= keys' /\ (Configured(t)' \/ MadeSince(t)')
    BY <1>1, <1>2, <1>3, <1>4, <1>5, <2>1 DEF KeysInOrder, KeysApart
  <2>4. \A r, t \in Seats :
          r # t /\ IsBound(r)' /\ IsBound(t)' /\ seat'[r].bound.key = seat'[t].bound.key
            => Configured(r)' /\ Configured(t)'
    BY <1>2, <1>3, <2>2 DEF KeysInOrder, KeysApart
  <2> QED
    BY <1>1, <1>2, <1>5, <2>3, <2>4 DEF KeysInOrder, KeysApart
<1>6. CASE UNCHANGED keys /\ s \in Attached /\ key = stableKey[s]
  <2>1. Configured(s)'
    BY <1>2, <1>6 DEF Configured, Attached
  <2>2. \A t \in Seats \ {s} :
          IsBound(t) /\ seat[t].bound.key = key => Configured(t)
    BY <1>1, <1>6 DEF KeysInOrder, KeysApart, MadeSince
  <2>3. \A t \in Seats : IsBound(t)' =>
          seat'[t].bound.key <= keys' /\ (Configured(t)' \/ MadeSince(t)')
    BY <1>1, <1>2, <1>3, <1>6, <2>1 DEF KeysInOrder, KeysApart
  <2>4. \A r, t \in Seats :
          r # t /\ IsBound(r)' /\ IsBound(t)' /\ seat'[r].bound.key = seat'[t].bound.key
            => Configured(r)' /\ Configured(t)'
    BY <1>2, <1>3, <2>1, <2>2 DEF KeysInOrder, KeysApart
  <2> QED
    BY <1>1, <1>2, <1>6, <2>3, <2>4 DEF KeysInOrder, KeysApart
<1> QED
  BY <1>5, <1>6

LEMMA FailsKeeps ==
  ASSUME KeysInOrder, NEW s \in Seats, Fails(s) \/ Releases(s) \/ UNCHANGED seat,
         UNCHANGED stableKey, keys' \in Nat, keys <= keys'
  PROVE  KeysInOrder'
<1>1. seat \in [Seats -> SeatRecord]
  BY DEF KeysInOrder
<1>2. /\ [seat[s] EXCEPT !.pc = "unbound"] \in SeatRecord
      /\ [seat[s] EXCEPT !.pc = "unbound", !.bound = Nobody, !.origin = "none"] \in SeatRecord
  BY <1>1 DEF SeatRecord, Nobody, NoOwner
<1>3. seat' \in [Seats -> SeatRecord]
  BY <1>1, <1>2 DEF Fails, Releases
<1>4. \A t \in Seats : seat'[t].pc \in {"bound", "delete"} => seat'[t] = seat[t]
  BY <1>1, <1>2 DEF Fails, Releases, SeatRecord
<1>5. KeepsBindings
  BY <1>3, <1>4 DEF KeepsBindings
<1> QED
  BY <1>5, KeepsBindingsKeep

LEMMA SendsKeeps ==
  ASSUME KeysInOrder, NEW s \in Seats, NEW op \in Acquiring \cup {"delete"}, NEW u,
         Sends(s, op, u), op = "delete" => seat[s].pc = "bound",
         UNCHANGED stableKey, keys' \in Nat, keys <= keys'
  PROVE  KeysInOrder'
<1>1. KeepsBindings
  BY DEF Sends, KeepsBindings, KeysInOrder, SeatRecord, Acquiring
<1> QED
  BY <1>1, KeepsBindingsKeep

LEMMA SeatStepsKeys ==
  ASSUME KeysInOrder, NEW s \in Seats, SeatNext(s) PROVE KeysInOrder'
<1>1. UNCHANGED <<keys, stableKey>> /\ keys \in Nat
  BY DEF SeatNext, Acquire, AcquireFails, ReleasePersistent, ReleaseEphemeral, ReleaseFails,
         CallOut, CallHandled, CallAnswered, Crash, vars, KeysInOrder
<1>2. seat \in [Seats -> SeatRecord]
  BY DEF KeysInOrder
<1>3. CASE Acquire(s)
  <2>1. KeepsBindings
    BY <1>1, <1>3 DEF Acquire, KeepsBindings, KeysInOrder, SeatRecord, Acquiring
  <2> QED
    BY <2>1, KeepsBindingsKeep
<1>4. CASE AcquireFails(s) \/ ReleasePersistent(s) \/ ReleaseFails(s)
  BY <1>1, <1>4, FailsKeeps DEF AcquireFails, ReleasePersistent, ReleaseFails
<1>5. CASE ReleaseEphemeral(s)
  BY <1>1, <1>5, SendsKeeps DEF ReleaseEphemeral
<1>6. CASE CallOut(s)
  <2>1. [seat[s] EXCEPT !.out =
           [user |-> seat[s].bound.user, key |-> seat[s].bound.key, stage |-> "sent"]]
          \in SeatRecord
    BY <1>2 DEF SeatRecord
  <2>2. seat' \in [Seats -> SeatRecord]
    BY <1>2, <1>6, <2>1 DEF CallOut
  <2>3. KeepsBindings
    BY <1>1, <1>2, <1>6, <2>2 DEF CallOut, KeepsBindings, SeatRecord
  <2> QED
    BY <2>3, KeepsBindingsKeep
<1>7. CASE CallHandled(s)
  <2>1. KeepsBindings
    BY <1>1, <1>7 DEF CallHandled, KeepsBindings, KeysInOrder, SeatRecord
  <2> QED
    BY <2>1, KeepsBindingsKeep
<1>8. CASE CallAnswered(s)
  <2>1. [seat[s] EXCEPT !.out = NoCall,
           !.rejected = seat[s].rejected \/ seat[s].out.stage = "refused"] \in SeatRecord
    BY <1>2 DEF SeatRecord, NoCall, NoOwner
  <2>2. seat' \in [Seats -> SeatRecord]
    BY <1>2, <1>8, <2>1 DEF CallAnswered
  <2>3. KeepsBindings
    BY <1>1, <1>2, <1>8, <2>2 DEF CallAnswered, KeepsBindings, SeatRecord
  <2> QED
    BY <2>3, KeepsBindingsKeep
<1>9. CASE Crash(s)
  <2>1. [Unbound EXCEPT !.try = seat[s].try] \in SeatRecord
    BY <1>2 DEF SeatRecord, Unbound, Nobody, NoCall, NoOwner
  <2>2. seat' \in [Seats -> SeatRecord]
    BY <1>2, <1>9, <2>1 DEF Crash
  <2>3. KeepsBindings
    BY <1>1, <1>2, <1>9, <2>2 DEF Crash, KeepsBindings, Unbound
  <2> QED
    BY <2>3, KeepsBindingsKeep
<1> QED
  BY <1>3, <1>4, <1>5, <1>6, <1>7, <1>8, <1>9 DEF SeatNext

LEMMA WireStepsKeys ==
  ASSUME KeysInOrder, BotsApart, NEW r,
         \/ HandleFind(r) \/ HandleMint(r) \/ HandleReactivate(r)
         \/ HandleRegenerate(r) \/ HandleDelete(r) \/ Lost(r)
  PROVE  KeysInOrder'
<1>1. /\ r.seat \in Seats /\ keys \in Nat /\ Len(users) \in Nat /\ DOMAIN users \subseteq Nat
      /\ stableKey \in [Seats -> Nat]
  BY DEF HandleFind, HandleMint, HandleReactivate, HandleRegenerate, HandleDelete, Lost,
         BotsApart, AskedBySeats, KeysInOrder
<1>2. CASE HandleFind(r)
  <2>1. UNCHANGED <<keys, stableKey>>
    BY <1>2 DEF HandleFind, vars
  <2>2. CASE UNCHANGED seat
    BY <1>1, <2>1, <2>2, FailsKeeps
  <2>3. CASE Find(r.seat)
    <3>1. CASE Fails(r.seat)
      BY <1>1, <2>1, <3>1, FailsKeeps
    <3>2. ASSUME NEW u \in FoundFor(NameOf[r.seat]), r.seat \in Attached,
                 Binds(r.seat, u, stableKey[r.seat], "existing")
          PROVE  KeysInOrder'
      <4>1. u \in Nat /\ stableKey[r.seat] \in Nat
        BY <1>1 DEF FoundFor
      <4> QED
        BY <1>1, <2>1, <3>2, <4>1, BindsKeep
    <3>3. ASSUME NEW op \in {"mint", "regenerate", "reactivate"}, NEW u, Sends(r.seat, op, u)
          PROVE  KeysInOrder'
      BY <1>1, <2>1, <3>3, SendsKeeps DEF Acquiring
    <3> QED
      BY <2>3, <3>1, <3>2, <3>3 DEF Find
  <2> QED
    BY <1>2, <2>2, <2>3 DEF HandleFind
<1>3. CASE HandleMint(r)
  <2>1. UNCHANGED stableKey
    BY <1>3 DEF HandleMint
  <2>2. CASE PostBots(Minter, NameOf[r.seat])
            /\ Hears(r, Binds(r.seat, Len(users) + 1, keys + 1, "minted"))
    <3>1. keys' = keys + 1
      BY <2>2 DEF PostBots
    <3>2. CASE Binds(r.seat, Len(users) + 1, keys + 1, "minted")
      BY <1>1, <2>1, <3>1, <3>2, BindsKeep
    <3>3. CASE UNCHANGED seat
      BY <1>1, <2>1, <3>1, <3>3, FailsKeeps
    <3> QED
      BY <2>2, <3>2, <3>3 DEF Hears
  <2>3. CASE UNCHANGED people /\ Hears(r, Fails(r.seat))
    BY <1>1, <2>1, <2>3, FailsKeeps DEF Hears, people
  <2> QED
    BY <1>3, <2>2, <2>3 DEF HandleMint
<1>4. CASE HandleReactivate(r)
  <2>1. UNCHANGED <<keys, stableKey>>
    BY <1>4 DEF HandleReactivate, Reactivate, people
  <2>2. CASE Sends(r.seat, "regenerate", r.user)
    BY <1>1, <2>1, <2>2, SendsKeeps DEF Acquiring
  <2>3. CASE Fails(r.seat) \/ UNCHANGED seat
    BY <1>1, <2>1, <2>3, FailsKeeps
  <2> QED
    BY <1>4, <2>2, <2>3 DEF HandleReactivate, Hears
<1>5. CASE HandleRegenerate(r)
  <2>1. UNCHANGED stableKey /\ keys' = keys + 1 /\ r.user \in Nat
    BY <1>1, <1>5 DEF HandleRegenerate, RegenerateKey, AccessBot
  <2>2. CASE Binds(r.seat, r.user, keys + 1, "existing")
    BY <1>1, <2>1, <2>2, BindsKeep
  <2>3. CASE UNCHANGED seat
    BY <1>1, <2>1, <2>3, FailsKeeps
  <2> QED
    BY <1>5, <2>2, <2>3 DEF HandleRegenerate, Hears
<1>6. CASE HandleDelete(r)
  BY <1>1, <1>6, FailsKeeps DEF HandleDelete, DeleteBot, Deactivate, Hears
<1>7. CASE Lost(r)
  BY <1>1, <1>7, FailsKeeps DEF Lost, vars
<1> QED
  BY <1>2, <1>3, <1>4, <1>5, <1>6, <1>7

LEMMA OtherStepsKeys ==
  ASSUME KeysInOrder, Outside \/ UNCHANGED allVars PROVE KeysInOrder'
<1>1. UNCHANGED <<seat, stableKey>> /\ keys' \in {keys, keys + 1} /\ keys \in Nat
  BY DEF Outside, allVars, vars, identityVars, Deactivate, RevokeApiKey, AddUser, KeysInOrder
<1>2. KeepsBindings
  BY <1>1 DEF KeepsBindings, KeysInOrder
<1> QED
  BY <1>2, KeepsBindingsKeep

LEMMA StartsInOrder == IdentityInit => KeysInOrder
<1> SUFFICES ASSUME IdentityInit PROVE KeysInOrder
  OBVIOUS
<1>1. PICK attached \in SUBSET Attachable, n \in Nat : \E order : StartsWith(attached, n, order)
  BY StartingRealm
<1>2. PICK order : StartsWith(attached, n, order)
  BY <1>1
<1> DEFINE place(s) == CHOOSE i \in DOMAIN order : order[i] = NameOf[s]
<1>3. \A s \in attached : place(s) \in 1 .. n
  <2> SUFFICES ASSUME NEW s \in attached PROVE place(s) \in 1 .. n
    OBVIOUS
  <2>1. DOMAIN order = 1 .. n
    BY <1>2 DEF StartsWith
  <2>2. NameOf[s] \in {order[i] : i \in 1 .. n}
    BY <1>2 DEF StartsWith
  <2>3. \E i \in DOMAIN order : order[i] = NameOf[s]
    BY <2>1, <2>2
  <2>4. place(s) \in DOMAIN order
    BY <2>3
  <2> QED
    BY <2>1, <2>4
<1>4. stableKey \in [Seats -> Nat] /\ \A t \in Seats : stableKey[t] <= keys
  <2>1. stableKey = [s \in Seats |-> IF s \in attached THEN 2 + place(s) ELSE 0] /\ keys = 2 + n
    BY <1>2 DEF StartsWith
  <2> HIDE DEF place
  <2> QED
    BY <1>3, <2>1
<1>5. seat \in [Seats -> SeatRecord] /\ \A s \in Seats : ~IsBound(s)
  BY DEF IdentityInit, Unbound, SeatRecord, Nobody, NoCall, NoOwner, IsBound
<1>6. keys \in Nat
  BY <1>2 DEF StartsWith
<1> QED
  BY <1>4, <1>5, <1>6 DEF KeysInOrder, KeysApart

\* No two seats ever hold the same credential of a bot unless an operator gave
\* both the stable one, however regenerates, mints and attaches interleave, are
\* lost or land late (adapter.ts regenerateBotKey, attachBot).
THEOREM KeysStayApart == IdentitySpec => []KeysAreNotShared
<1>1. BotsApart /\ KeysInOrder /\ [IdentityNext]_allVars => KeysInOrder'
  BY WireStepsKeys, SeatStepsKeys, OtherStepsKeys DEF IdentityNext, WireNext
<1>2. BotsApart /\ [IdentityNext]_allVars => BotsApart'
  BY StepsKeepApart
<1>3. KeysInOrder => KeysAreNotShared
  <2> SUFFICES ASSUME KeysInOrder, NEW s \in Seats, NEW t \in Seats,
                      s # t, IsBound(s), IsBound(t), seat[s].bound = seat[t].bound
               PROVE  {s, t} \subseteq Attached
    BY DEF KeysAreNotShared
  <2> QED
    BY DEF KeysInOrder, KeysApart, Configured
<1> QED
  BY StartsApart, StartsInOrder, <1>1, <1>2, <1>3, PTL DEF IdentitySpec

-----------------------------------------------------------------------------
(* Newly minted bots *)

\* No user is forgotten, renamed or given another e-mail.
UsersStay ==
  /\ DOMAIN users \subseteq DOMAIN users'
  /\ \A u \in DOMAIN users :
       users'[u].name = users[u].name /\ users'[u].email = users[u].email

\* A name that somebody has a stable key for has a bot from the start; who holds
\* a newly minted bot minted it for a name of no such key.
MintsInOrder ==
  /\ \A t \in Attached : \E u \in DOMAIN users : users[u].email = <<Short[NameOf[t]], "bot">>
  /\ \A s \in Seats : IsBound(s) => seat[s].bound.user \in DOMAIN users
  /\ \A s \in Seats : IsBound(s) /\ seat[s].origin = "minted" =>
       /\ users[seat[s].bound.user].name = NameOf[s]
       /\ \A t \in Attached : NameOf[t] # NameOf[s]
  /\ NewlyMintedIsUnused

\* What binds a seat: its mint, its regenerate, or the key it is configured with.
Minting(s, u, key, origin) ==
  /\ PostBots(Minter, NameOf[s])
  /\ u = Len(users) + 1 /\ key = keys + 1 /\ origin = "minted"
Regenerating(u, key, origin) ==
  u \in DOMAIN users /\ key = keys + 1 /\ origin = "existing"
Attaching(s, u, origin) ==
  /\ UNCHANGED users
  /\ s \in Attached /\ u \in FoundFor(NameOf[s]) /\ origin = "existing"

Binding(s, u, key, origin) ==
  /\ Binds(s, u, key, origin)
  /\ Minting(s, u, key, origin) \/ Regenerating(u, key, origin) \/ Attaching(s, u, origin)

\* Whoever is bound after the step was bound before, to the same.
NobodyBinds ==
  \A t \in Seats : IsBound(t)' =>
    /\ IsBound(t) /\ seat'[t].bound = seat[t].bound /\ seat'[t].origin = seat[t].origin

LEMMA UsersStayThere ==
  ASSUME BotsApart, [IdentityNext]_allVars PROVE UsersStay
<1>1. ASSUME NEW r, Append(users, r) = users' PROVE UsersStay
  <2>1. users \in Seq(AnyUser)
    BY DEF BotsApart
  <2> QED
    BY <1>1, <2>1 DEF UsersStay
<1>2. SameUsers => UsersStay
  BY DEF SameUsers, UsersStay
<1>3. ASSUME NEW u, Reactivate(Minter, u) \/ RegenerateKey(Minter, u) \/ Deactivate(u) \/ RevokeApiKey(u)
      PROVE  UsersStay
  BY <1>2, <1>3, KeyOrStatus DEF Reactivate, RegenerateKey, Deactivate, RevokeApiKey
<1>4. CASE UNCHANGED users
  BY <1>4 DEF UsersStay
<1>5. ASSUME NEW r, HandleFind(r) \/ HandleMint(r) \/ HandleReactivate(r)
                    \/ HandleRegenerate(r) \/ HandleDelete(r) \/ Lost(r)
      PROVE  UsersStay
  BY <1>1, <1>3, <1>4, <1>5
  DEF HandleFind, HandleMint, HandleReactivate, HandleRegenerate, HandleDelete, Lost, PostBots,
      DeleteBot, vars, people
<1>6. ASSUME NEW s, SeatNext(s) PROVE UsersStay
  BY <1>4, <1>6 DEF SeatNext, Acquire, AcquireFails, ReleasePersistent, ReleaseEphemeral,
                    ReleaseFails, CallOut, CallHandled, CallAnswered, Crash, vars
<1>7. CASE Outside
  BY <1>1, <1>3, <1>7 DEF Outside, AddUser
<1> QED
  BY <1>4, <1>5, <1>6, <1>7 DEF IdentityNext, WireNext, allVars, vars

LEMMA SeatStepsBind ==
  ASSUME KeysInOrder, NEW s \in Seats, SeatNext(s) PROVE NobodyBinds
<1>1. seat \in [Seats -> SeatRecord]
  BY DEF KeysInOrder
<1>2. CASE Acquire(s)
  BY <1>1, <1>2 DEF Acquire, NobodyBinds, IsBound, SeatRecord
<1>3. CASE AcquireFails(s)
  BY <1>1, <1>3 DEF AcquireFails, Fails, NobodyBinds, IsBound, SeatRecord
<1>4. CASE ReleasePersistent(s) \/ ReleaseFails(s)
  BY <1>1, <1>4 DEF ReleasePersistent, ReleaseFails, Releases, NobodyBinds, IsBound, SeatRecord
<1>5. CASE ReleaseEphemeral(s)
  BY <1>1, <1>5 DEF ReleaseEphemeral, Sends, NobodyBinds, IsBound, SeatRecord
<1>6. CASE CallOut(s)
  BY <1>1, <1>6 DEF CallOut, NobodyBinds, IsBound, SeatRecord
<1>7. CASE CallHandled(s)
  BY <1>1, <1>7 DEF CallHandled, NobodyBinds, IsBound, SeatRecord
<1>8. CASE CallAnswered(s)
  BY <1>1, <1>8 DEF CallAnswered, NobodyBinds, IsBound, SeatRecord
<1>9. CASE Crash(s)
  BY <1>1, <1>9 DEF Crash, Unbound, NobodyBinds, IsBound, SeatRecord
<1> QED
  BY <1>2, <1>3, <1>4, <1>5, <1>6, <1>7, <1>8, <1>9 DEF SeatNext

LEMMA WireStepsBind ==
  ASSUME BotsApart, KeysInOrder, NEW r,
         \/ HandleFind(r) \/ HandleMint(r) \/ HandleReactivate(r)
         \/ HandleRegenerate(r) \/ HandleDelete(r) \/ Lost(r)
  PROVE  \/ NobodyBinds
         \/ \E u, key, origin : Binding(r.seat, u, key, origin)
<1>1. r.seat \in Seats /\ seat \in [Seats -> SeatRecord]
  BY DEF HandleFind, HandleMint, HandleReactivate, HandleRegenerate, HandleDelete, Lost,
         BotsApart, AskedBySeats, KeysInOrder
<1>2. CASE UNCHANGED seat
  BY <1>2 DEF NobodyBinds, IsBound
<1>3. CASE Fails(r.seat)
  BY <1>1, <1>3 DEF Fails, NobodyBinds, IsBound, SeatRecord
<1>4. CASE Releases(r.seat)
  BY <1>1, <1>4 DEF Releases, NobodyBinds, IsBound, SeatRecord
<1>5. ASSUME NEW op \in Acquiring, NEW u, Sends(r.seat, op, u) PROVE NobodyBinds
  BY <1>1, <1>5 DEF Sends, NobodyBinds, IsBound, SeatRecord, Acquiring
<1>6. CASE HandleFind(r)
  <2>1. CASE r.seat \in Attached /\ Find(r.seat)
    BY <1>3, <1>6, <2>1 DEF Find, HandleFind, vars, Binding, Attaching
  <2>2. CASE r.seat \notin Attached /\ Find(r.seat)
    BY <1>5, <2>2 DEF Find, Acquiring
  <2> QED
    BY <1>2, <1>6, <2>1, <2>2 DEF HandleFind
<1>7. CASE HandleMint(r)
  BY <1>2, <1>3, <1>7 DEF HandleMint, Hears, Binding, Minting
<1>8. CASE HandleReactivate(r)
  BY <1>2, <1>3, <1>5, <1>8 DEF HandleReactivate, Hears, Acquiring
<1>9. CASE HandleRegenerate(r)
  BY <1>2, <1>9 DEF HandleRegenerate, RegenerateKey, AccessBot, Hears, Binding, Regenerating
<1>10. CASE HandleDelete(r)
  BY <1>2, <1>4, <1>10 DEF HandleDelete, Hears
<1>11. CASE Lost(r)
  BY <1>2, <1>11 DEF Lost
<1> QED
  BY <1>6, <1>7, <1>8, <1>9, <1>10, <1>11

LEMMA NobodyBindsKeeps ==
  ASSUME BotsApart, MintsInOrder, NobodyBinds, UsersStay, UNCHANGED stableKey
  PROVE  MintsInOrder'
<1>1. Attached' = Attached
  BY DEF Attached
<1>2. \A t \in Attached : \E v \in DOMAIN users' : users'[v].email = <<Short[NameOf[t]], "bot">>
  BY DEF MintsInOrder, UsersStay
<1>3. \A t \in Seats : IsBound(t)' => seat'[t].bound.user \in DOMAIN users'
  BY DEF MintsInOrder, NobodyBinds, UsersStay
<1>4. \A t \in Seats : IsBound(t)' /\ seat'[t].origin = "minted" =>
        /\ users'[seat'[t].bound.user].name = NameOf[t]
        /\ \A a \in Attached : NameOf[a] # NameOf[t]
  BY DEF MintsInOrder, NobodyBinds, UsersStay
<1>5. NewlyMintedIsUnused'
  BY DEF MintsInOrder, NobodyBinds, NewlyMintedIsUnused
<1> QED
  BY <1>1, <1>2, <1>3, <1>4, <1>5 DEF MintsInOrder

LEMMA BindingKeeps ==
  ASSUME BotsApart, KeysInOrder, MintsInOrder, UsersStay, UNCHANGED stableKey,
         NEW s \in Seats, NEW u, NEW key, NEW origin, Binding(s, u, key, origin)
  PROVE  MintsInOrder'
<1>1. /\ seat'[s].pc = "bound" /\ seat'[s].bound = [user |-> u, key |-> key]
      /\ seat'[s].origin = origin
      /\ \A t \in Seats \ {s} : seat'[t] = seat[t]
  <2>1. seat \in [Seats -> SeatRecord]
    BY DEF KeysInOrder
  <2>2. seat' = [seat EXCEPT ![s].pc = "bound", ![s].bound = [user |-> u, key |-> key],
                             ![s].origin = origin, ![s].rejected = FALSE]
    BY DEF Binding, Binds
  <2> QED
    BY <2>1, <2>2 DEF SeatRecord
<1>2. /\ IsBound(s)' /\ seat'[s].bound.user = u /\ seat'[s].bound.key = key
      /\ seat'[s].origin = origin
      /\ \A t \in Seats \ {s} : seat'[t] = seat[t] /\ IsBound(t)' = IsBound(t)
  BY <1>1 DEF IsBound
<1>3. u \in DOMAIN users'
  <2>1. CASE Minting(s, u, key, origin)
    BY <2>1 DEF Minting, PostBots, BotsApart
  <2>2. CASE u \in DOMAIN users
    BY <2>2 DEF UsersStay
  <2> QED
    BY <2>1, <2>2 DEF Binding, Regenerating, Attaching, FoundFor
<1>4. origin = "minted" => /\ u \notin DOMAIN users
                           /\ users'[u].name = NameOf[s]
                           /\ \A t \in Attached : NameOf[t] # NameOf[s]
  <2> SUFFICES ASSUME Minting(s, u, key, origin)
               PROVE  /\ u \notin DOMAIN users
                      /\ users'[u].name = NameOf[s]
                      /\ \A t \in Attached : NameOf[t] # NameOf[s]
    BY DEF Binding, Regenerating, Attaching
  <2>1. u \notin DOMAIN users /\ users'[u].name = NameOf[s]
    BY DEF Minting, PostBots, NewUser, BotsApart
  <2>2. \A t \in Attached : NameOf[t] # NameOf[s]
    BY DEF Minting, PostBots, MintRefused, MintsInOrder
  <2> QED
    BY <2>1, <2>2
<1>5. ASSUME NEW t \in Seats \ {s}, IsBound(t), seat[t].origin = "minted", seat[t].bound.user = u
      PROVE  origin = "existing" /\ key > seat[t].bound.key
  <2>1. u \in DOMAIN users /\ seat[t].bound.key \in Nat /\ seat[t].bound.key <= keys /\ keys \in Nat
    BY <1>5 DEF MintsInOrder, KeysInOrder, KeysApart, SeatRecord
  <2>2. ~Minting(s, u, key, origin)
    BY <2>1 DEF Minting, BotsApart
  <2>3. ~Attaching(s, u, origin)
    BY <1>5 DEF Attaching, FoundFor, MintsInOrder
  <2> QED
    BY <2>1, <2>2, <2>3 DEF Binding, Regenerating
<1>6. ASSUME NEW t \in Seats \ {s}, IsBound(t), seat[t].bound.user = u PROVE origin # "minted"
  BY <1>4, <1>6 DEF MintsInOrder
<1>7. NewlyMintedIsUnused'
  <2> SUFFICES ASSUME NEW a \in Seats, NEW b \in Seats, a # b,
                      IsBound(a)', seat'[a].origin = "minted",
                      IsBound(b)', seat'[b].bound.user = seat'[a].bound.user
               PROVE  seat'[b].origin = "existing" /\ seat'[b].bound.key > seat'[a].bound.key
    BY DEF NewlyMintedIsUnused
  <2>1. a # s
    BY <1>1, <1>2, <1>6
  <2>2. CASE b = s
    BY <1>1, <1>2, <1>5, <2>1, <2>2
  <2>3. CASE b # s
    BY <1>2, <2>1, <2>3 DEF MintsInOrder, NewlyMintedIsUnused
  <2> QED
    BY <2>2, <2>3
<1>8. Attached' = Attached
  BY DEF Attached
<1>9. \A t \in Attached : \E v \in DOMAIN users' : users'[v].email = <<Short[NameOf[t]], "bot">>
  BY DEF MintsInOrder, UsersStay
<1>10. \A t \in Seats : IsBound(t)' => seat'[t].bound.user \in DOMAIN users'
  BY <1>1, <1>2, <1>3 DEF MintsInOrder, UsersStay
<1>11. ASSUME NEW t \in Seats, IsBound(t)', seat'[t].origin = "minted"
       PROVE  /\ users'[seat'[t].bound.user].name = NameOf[t]
              /\ \A a \in Attached : NameOf[a] # NameOf[t]
  BY <1>1, <1>2, <1>4, <1>11 DEF MintsInOrder, UsersStay
<1> QED
  BY <1>7, <1>8, <1>9, <1>10, <1>11 DEF MintsInOrder

LEMMA StartsMinting == IdentityInit => MintsInOrder
<1> SUFFICES ASSUME IdentityInit PROVE MintsInOrder
  OBVIOUS
<1>1. PICK attached \in SUBSET Attachable, n \in Nat : \E order : StartsWith(attached, n, order)
  BY StartingRealm
<1>2. PICK order : StartsWith(attached, n, order)
  BY <1>1
<1>3. Attached \subseteq attached /\ DOMAIN users = 1 .. 2 + n
  BY <1>2 DEF Attached, StartsWith
<1>4. ASSUME NEW t \in Attached
      PROVE  \E u \in DOMAIN users : users[u].email = <<Short[NameOf[t]], "bot">>
  <2>1. NameOf[t] \in {order[i] : i \in 1 .. n}
    BY <1>2, <1>3, <1>4 DEF StartsWith
  <2>2. PICK i \in 1 .. n : order[i] = NameOf[t]
    BY <2>1
  <2>3. i + 2 \in 3 .. 2 + n /\ i + 2 \in DOMAIN users /\ (i + 2) - 2 = i
    BY <1>3
  <2>4. users[i + 2].email = <<Short[order[(i + 2) - 2]], "bot">>
    BY <1>2, <2>3 DEF StartsWith
  <2> QED
    BY <2>2, <2>3, <2>4
<1>5. \A s \in Seats : ~IsBound(s)
  BY DEF IdentityInit, Unbound, IsBound
<1> QED
  BY <1>4, <1>5 DEF MintsInOrder, NewlyMintedIsUnused

LEMMA StepsKeepMinting ==
  ASSUME BotsApart, KeysInOrder, MintsInOrder, [IdentityNext]_allVars PROVE MintsInOrder'
<1>1. UsersStay
  BY UsersStayThere
<1>2. UNCHANGED stableKey
  BY DEF IdentityNext, WireNext, SeatNext, Outside, allVars, identityVars, HandleFind, HandleMint,
         HandleReactivate, HandleRegenerate, HandleDelete, Lost, Acquire, AcquireFails,
         ReleasePersistent, ReleaseEphemeral, ReleaseFails, CallOut, CallHandled, CallAnswered, Crash
<1>3. CASE NobodyBinds
  BY <1>1, <1>2, <1>3, NobodyBindsKeeps
<1>4. CASE UNCHANGED seat
  BY <1>3, <1>4 DEF NobodyBinds, IsBound
<1>5. CASE WireNext
  <2>1. PICK r \in wire : \/ HandleFind(r) \/ HandleMint(r) \/ HandleReactivate(r)
                          \/ HandleRegenerate(r) \/ HandleDelete(r) \/ Lost(r)
    BY <1>5 DEF WireNext
  <2>2. r.seat \in Seats
    BY DEF BotsApart, AskedBySeats
  <2> QED
    BY <1>1, <1>2, <1>3, <2>1, <2>2, WireStepsBind, BindingKeeps
<1>6. ASSUME NEW s \in Seats, SeatNext(s) PROVE MintsInOrder'
  BY <1>3, <1>6, SeatStepsBind
<1>7. CASE Outside \/ UNCHANGED allVars
  BY <1>4, <1>7 DEF Outside, allVars, identityVars
<1> QED
  BY <1>5, <1>6, <1>7 DEF IdentityNext

\* A seat that is told its bot is new is the first to hold it, and whoever comes
\* to hold it later has a later key: so no two seats can both take themselves
\* for the first, however mints are lost, land late or race an attached key
\* (adapter.ts mintBot, attachBot).
THEOREM MintedIsNew == IdentitySpec => []NewlyMintedIsUnused
<1>1. BotsApart /\ KeysInOrder /\ [IdentityNext]_allVars => KeysInOrder'
  BY WireStepsKeys, SeatStepsKeys, OtherStepsKeys DEF IdentityNext, WireNext
<1>2. MintsInOrder => NewlyMintedIsUnused
  BY DEF MintsInOrder
<1> QED
  BY StartsApart, StartsInOrder, StartsMinting, StepsKeepApart, StepsKeepMinting, <1>1, <1>2, PTL
  DEF IdentitySpec

-----------------------------------------------------------------------------
(* Names of the realm *)

\* A human has no owner, so nobody can bring one back; every request is of a
\* user.
NamesInOrder ==
  /\ users \in Seq(AnyUser) /\ keys \in Nat /\ DOMAIN call = Clients
  /\ \A c \in Clients : DOMAIN call[c] = DOMAIN Idle
  /\ \A c \in Clients : call[c].pc = "authenticated" => call[c].user \in DOMAIN users
  /\ \A u \in DOMAIN users : users[u].kind = "human" => users[u].owner = NoOwner

NoNewTwins ==
  \A u, v \in DOMAIN users' :
    Twins(u, v)' => u \in DOMAIN users /\ v \in DOMAIN users /\ Twins(u, v)

\* Someone new.
Joins(n, k, owner) ==
  /\ n \in Names /\ k \in {"human", "bot"} /\ owner \in Nat
  /\ k = "human" => owner = NoOwner
  /\ users' = Append(users, NewUser(n, k, owner)) /\ keys' = keys + 1

\* Nobody active has the name.
Unheld(n) == \A u \in DOMAIN users : users[u].name = n => ~users[u].active

\* What a request does to the users, and what a fixture may do besides.
RequestChange ==
  \/ UNCHANGED people
  \/ \E u : users' = [users EXCEPT ![u].key = keys + 1] /\ keys' = keys + 1
  \/ \E u : users' = [users EXCEPT ![u].active = FALSE] /\ UNCHANGED keys
  \/ \E me \in DOMAIN users : \E u : Reactivate(me, u)
  \/ \E n, k, owner : Joins(n, k, owner) /\ Unheld(n)

PeopleChange == RequestChange \/ \E n, k, owner : Joins(n, k, owner)

CallsStay ==
  /\ DOMAIN call' = DOMAIN call
  /\ \A c \in Clients : \/ call'[c] = call[c]
                       \/ /\ DOMAIN call'[c] = DOMAIN Idle
                          /\ call'[c].pc = "authenticated" => call'[c].user \in DOMAIN users

LEMMA PeopleChangeOnly ==
  ASSUME NamesInOrder, [Next]_vars
  PROVE  PeopleChange /\ CallsStay /\ (call' # call => RequestChange)
<1>1. CASE UNCHANGED vars
  BY <1>1 DEF vars, PeopleChange, RequestChange, people, CallsStay
<1>2. ASSUME NEW c \in Clients, HandlePeople(c) PROVE RequestChange
  <2> DEFINE me == call[c].user
  <2>1. me \in DOMAIN users /\ me \in Nat
    BY <1>2 DEF HandlePeople, Handled, At, NamesInOrder
  <2>2. ASSUME NEW n \in Names, PostBots(me, n) PROVE RequestChange
    <3>1. Joins(n, "bot", me) /\ Unheld(n)
      BY <2>1, <2>2 DEF Joins, Unheld, PostBots, MintRefused
    <3> QED
      BY <3>1 DEF RequestChange
  <2>3. ASSUME NEW u, RegenerateKey(me, u) \/ DeleteBot(me, u) \/ Reactivate(me, u) PROVE RequestChange
    BY <2>1, <2>3 DEF RegenerateKey, DeleteBot, Deactivate, RequestChange
  <2> QED
    BY <1>2, <2>2, <2>3 DEF HandlePeople
<1>3. ASSUME Fixture PROVE PeopleChange
  <2>1. ASSUME NEW n \in Names, NEW k \in Kinds, AddUser(n, k) PROVE PeopleChange
    <3>1. Joins(n, k, IF k = "bot" THEN Minter ELSE NoOwner)
      BY <2>1, Constants DEF AddUser, Joins, Minter, NoOwner
    <3> QED
      BY <3>1 DEF PeopleChange
  <2>2. ASSUME NEW u, Deactivate(u) \/ RevokeApiKey(u) PROVE PeopleChange
    BY <2>2 DEF Deactivate, RevokeApiKey, PeopleChange, RequestChange
  <2>3. UNCHANGED people => PeopleChange
    BY DEF PeopleChange, RequestChange
  <2> QED
    BY <1>3, <2>1, <2>2, <2>3 DEF Fixture
<1>4. ASSUME NEW c \in Clients,
             \/ HandlePeople(c) \/ HandleContent(c) \/ HandleQueues(c) \/ HandlePoll(c)
             \/ Refuses(c) \/ PollAnswers(c) \/ PollRefused(c) \/ PollTimesOut(c) \/ PollBeats(c)
      PROVE  CallsStay
  <2> DEFINE Moves(x) ==
        call' = [call EXCEPT ![c] = x] /\ x.pc # "authenticated" /\ DOMAIN x = DOMAIN Idle
  <2>1. \E x : Moves(x)
    <3>0. DOMAIN call[c] = DOMAIN Idle /\ DOMAIN Idle = {"pc", "user", "queue", "ack"}
      BY DEF NamesInOrder, Idle
    <3>1. Ends(c) => Moves(Idle)
      BY DEF Ends, Idle
    <3>2. CASE HandlePoll(c)
      <4>1. PICK q \in DOMAIN queues : PollPrunes(c, q)
        BY <3>2 DEF HandlePoll
      <4> DEFINE x == [call[c] EXCEPT !.pc = "waiting", !.queue = q, !.ack = Newest(q)]
      <4>2. call' = [call EXCEPT ![c] = x]
        BY <4>1 DEF PollPrunes
      <4>3. x.pc = "waiting" /\ DOMAIN x = DOMAIN Idle
        BY <3>0
      <4> QED
        BY <4>2, <4>3
    <3>3. CASE PollTimesOut(c)
      <4> DEFINE x == [call[c] EXCEPT !.pc = "timed out"]
      <4>1. call' = [call EXCEPT ![c] = x]
        BY <3>3 DEF PollTimesOut
      <4>2. x.pc = "timed out" /\ DOMAIN x = DOMAIN Idle
        BY <3>0
      <4> QED
        BY <4>1, <4>2
    <3> QED
      BY <1>4, <3>1, <3>2, <3>3
      DEF HandlePeople, HandleContent, HandleQueues, Handled, Refuses, PollAnswers, PollRefused,
          PollBeats
  <2> QED
    BY <2>1 DEF CallsStay, NamesInOrder
<1>5. ASSUME NEW c \in Clients, NEW u \in DOMAIN users, Authenticates(c, u, users[u].key)
      PROVE  RequestChange /\ CallsStay
  BY <1>5 DEF Authenticates, realmVars, RequestChange, people, CallsStay, NamesInOrder, Idle
<1>6. ASSUME NEW c \in Clients,
             \/ HandleContent(c) \/ HandleQueues(c) \/ HandlePoll(c) \/ Refuses(c)
             \/ PollAnswers(c) \/ PollRefused(c) \/ PollTimesOut(c) \/ PollBeats(c)
      PROVE  RequestChange
  BY <1>6 DEF HandleContent, HandleQueues, HandlePoll, Refuses, PollAnswers, PollRefused,
              PollTimesOut, PollBeats, realmVars, RequestChange, people
<1>7. Fixture => CallsStay /\ call' = call
  BY DEF Fixture, CallsStay
<1>8. RequestChange => PeopleChange
  BY DEF PeopleChange
<1>9. CASE \E c \in Clients :
             \/ \E u \in DOMAIN users \ {NotificationBot} : Authenticates(c, u, users[u].key)
             \/ HandlePeople(c) \/ HandleContent(c) \/ HandleQueues(c) \/ HandlePoll(c)
             \/ Refuses(c)
             \/ PollAnswers(c) \/ PollRefused(c) \/ PollTimesOut(c) \/ PollBeats(c)
  BY <1>2, <1>4, <1>5, <1>6, <1>8, <1>9
<1>10. CASE Fixture
  BY <1>3, <1>7, <1>10
<1>11. UNCHANGED vars => call' = call
  BY DEF vars
<1> QED
  BY <1>1, <1>9, <1>10, <1>11 DEF Next

\* A change of one user's key or status.
LEMMA OneUserChanges ==
  ASSUME NamesInOrder, NEW u, NEW r \in AnyUser,
         \/ UNCHANGED users
         \/ u \in DOMAIN users /\ users' = [users EXCEPT ![u] = r]
            /\ r.name = users[u].name /\ r.kind = users[u].kind /\ r.owner = users[u].owner
            /\ \/ r.active => users[u].active
               \/ \A v \in DOMAIN users : users[v].active => users[v].name # r.name
  PROVE  /\ users' \in Seq(AnyUser) /\ DOMAIN users' = DOMAIN users
         /\ \A w \in DOMAIN users' : users'[w].kind = "human" => users'[w].owner = NoOwner
         /\ NoNewTwins
<1>1. CASE UNCHANGED users
  BY <1>1 DEF NamesInOrder, NoNewTwins, Twins
<1>2. CASE /\ u \in DOMAIN users /\ users' = [users EXCEPT ![u] = r]
           /\ r.name = users[u].name /\ r.kind = users[u].kind /\ r.owner = users[u].owner
           /\ \/ r.active => users[u].active
              \/ \A v \in DOMAIN users : users[v].active => users[v].name # r.name
  <2>1. users' \in Seq(AnyUser) /\ DOMAIN users' = DOMAIN users
    BY <1>2 DEF NamesInOrder
  <2>2. users'[u] = r /\ \A w \in DOMAIN users \ {u} : users'[w] = users[w]
    BY <1>2 DEF NamesInOrder
  <2>3. \A w \in DOMAIN users' : users'[w].kind = "human" => users'[w].owner = NoOwner
    BY <1>2, <2>1, <2>2 DEF NamesInOrder
  <2>4. \A w \in DOMAIN users : users'[w].name = users[w].name
    BY <1>2, <2>2
  <2>5. CASE r.active => users[u].active
    <3>1. \A w \in DOMAIN users : users'[w].active => users[w].active
      BY <2>2, <2>5
    <3> QED
      BY <2>1, <2>3, <2>4, <3>1 DEF NamesInOrder, NoNewTwins, Twins
  <2>6. CASE \A v \in DOMAIN users : users[v].active => users[v].name # users[u].name
    <3>1. \A w \in DOMAIN users \ {u} : users'[w].active => users'[w].name # users'[u].name
      BY <2>2, <2>4, <2>6, <1>2
    <3>2. NoNewTwins
      BY <2>1, <2>2, <3>1 DEF NamesInOrder, NoNewTwins, Twins
    <3> QED
      BY <2>1, <2>3, <3>2
  <2> QED
    BY <1>2, <2>5, <2>6
<1> QED
  BY <1>1, <1>2

LEMMA JoinsInOrder ==
  ASSUME NamesInOrder, NEW n, NEW k, NEW owner, Joins(n, k, owner)
  PROVE  /\ users' \in Seq(AnyUser) /\ DOMAIN users \subseteq DOMAIN users'
         /\ \A w \in DOMAIN users' : users'[w].kind = "human" => users'[w].owner = NoOwner
         /\ Unheld(n) => NoNewTwins
<1>1. NewUser(n, k, owner) \in AnyUser
  <2>1. n \in Names /\ k \in {"bot", "human"} /\ owner \in Nat
    BY DEF Joins
  <2>2. Short[n] \in Range(Short)
    BY <2>1, Constants DEF Range
  <2>3. <<Short[n], k>> \in Mail
    BY <2>1, <2>2 DEF Mail
  <2>4. n \in AnyName
    BY <2>1 DEF AnyName
  <2>5. keys + 1 \in Nat
    BY DEF NamesInOrder
  <2> QED
    BY <2>1, <2>3, <2>4, <2>5 DEF NewUser, AnyUser
<1>2. /\ users' \in Seq(AnyUser) /\ DOMAIN users' = DOMAIN users \cup {Len(users) + 1}
      /\ users'[Len(users) + 1] = NewUser(n, k, owner)
      /\ \A w \in DOMAIN users : users'[w] = users[w]
  BY <1>1 DEF Joins, NamesInOrder
<1>3. NewUser(n, k, owner).name = n /\ NewUser(n, k, owner).kind = k
      /\ NewUser(n, k, owner).owner = owner
  BY DEF NewUser
<1> QED
  BY <1>2, <1>3 DEF Joins, Unheld, NamesInOrder, NoNewTwins, Twins

LEMMA NextNames ==
  NamesInOrder /\ [Next]_vars => NamesInOrder' /\ (call' # call => NoNewTwins)
<1> SUFFICES ASSUME NamesInOrder, [Next]_vars
             PROVE  NamesInOrder' /\ (call' # call => NoNewTwins)
  OBVIOUS
<1> DEFINE People == /\ users' \in Seq(AnyUser) /\ keys' \in Nat /\ DOMAIN users \subseteq DOMAIN users'
                     /\ \A w \in DOMAIN users' :
                          users'[w].kind = "human" => users'[w].owner = NoOwner
<1>0. users \in Seq(AnyUser) /\ keys \in Nat /\ \A w \in DOMAIN users : users[w] \in AnyUser
  BY DEF NamesInOrder
<1>1. PeopleChange /\ CallsStay /\ (call' # call => RequestChange)
  BY PeopleChangeOnly
<1>2. UNCHANGED people => People /\ NoNewTwins
  BY DEF people, NamesInOrder, NoNewTwins, Twins
<1>3. ASSUME NEW u, \/ users' = [users EXCEPT ![u].key = keys + 1] /\ keys' = keys + 1
                    \/ users' = [users EXCEPT ![u].active = FALSE] /\ UNCHANGED keys
                    \/ \E me \in DOMAIN users : Reactivate(me, u)
      PROVE  People /\ NoNewTwins
  <2>1. CASE u \notin DOMAIN users
    BY <1>0, <1>3, <2>1 DEF Reactivate, ReactivateRefused, NamesInOrder, NoNewTwins, Twins
  <2>2. ASSUME u \in DOMAIN users, users' = [users EXCEPT ![u].key = keys + 1], keys' = keys + 1
        PROVE  People /\ NoNewTwins
    <3> DEFINE r == [users[u] EXCEPT !.key = keys + 1]
    <3>1. users[u] \in AnyUser /\ keys + 1 \in Nat
      BY <1>0, <2>2
    <3>2. /\ r \in AnyUser /\ r.name = users[u].name /\ r.kind = users[u].kind
          /\ r.owner = users[u].owner
      BY <3>1 DEF AnyUser
    <3>3. r.active = users[u].active
      BY <3>1 DEF AnyUser
    <3>4. users' = [users EXCEPT ![u] = r] /\ keys' \in Nat
      BY <1>0, <2>2
    <3> HIDE DEF r
    <3> QED
      BY <2>2, <3>2, <3>3, <3>4, OneUserChanges
  <2>3. ASSUME u \in DOMAIN users, NEW b \in BOOLEAN, users' = [users EXCEPT ![u].active = b],
               UNCHANGED keys,
               b => \A v \in DOMAIN users : users[v].active => users[v].name # users[u].name
        PROVE  People /\ NoNewTwins
    <3> DEFINE r == [users[u] EXCEPT !.active = b]
    <3>1. users[u] \in AnyUser
      BY <1>0, <2>3
    <3>2. /\ r \in AnyUser /\ r.name = users[u].name /\ r.kind = users[u].kind
          /\ r.owner = users[u].owner
      BY <3>1 DEF AnyUser
    <3>3. r.active = b
      BY <3>1 DEF AnyUser
    <3>4. users' = [users EXCEPT ![u] = r] /\ keys' \in Nat
      BY <1>0, <2>3
    <3> HIDE DEF r
    <3>5. \/ r.active => users[u].active
          \/ \A v \in DOMAIN users : users[v].active => users[v].name # r.name
      BY <2>3, <3>2, <3>3
    <3> QED
      BY <2>3, <3>2, <3>4, <3>5, OneUserChanges
  <2>4. ASSUME NEW me \in DOMAIN users, Reactivate(me, u)
        PROVE  /\ u \in DOMAIN users /\ users' = [users EXCEPT ![u].active = TRUE] /\ UNCHANGED keys
               /\ \A v \in DOMAIN users : users[v].active => users[v].name # users[u].name
    <3>1. me # NoOwner
      BY <1>0 DEF NoOwner
    <3> QED
      BY <2>4, <3>1 DEF Reactivate, ReactivateRefused, NamesInOrder
  <2> QED
    BY <1>3, <2>1, <2>2, <2>3, <2>4
<1>4. ASSUME NEW n, NEW k, NEW owner, Joins(n, k, owner)
      PROVE  People /\ (Unheld(n) => NoNewTwins)
  BY <1>0, <1>4, JoinsInOrder DEF Joins
<1>5. RequestChange => People /\ NoNewTwins
  BY <1>2, <1>3, <1>4 DEF RequestChange
<1>6. People
  BY <1>1, <1>4, <1>5 DEF PeopleChange
<1> QED
  BY <1>1, <1>5, <1>6 DEF NamesInOrder, CallsStay

LEMMA StartsNamed == Init => NamesInOrder
<1> SUFFICES ASSUME Init PROVE NamesInOrder
  OBVIOUS
<1>1. users = FirstUsers /\ keys \in Nat
  BY DEF Init
<1>2. /\ DOMAIN users = {1, 2} /\ users \in Seq(AnyUser)
      /\ users[1].name # users[2].name
      /\ users[1].owner = NoOwner /\ users[2].kind # "human"
  <2>1. DOMAIN users = {1, 2} /\ users \in Seq(AnyUser)
    BY <1>1, FirstOnes
  <2>2. /\ users[1].name = "Minter" /\ users[1].owner = NoOwner
        /\ users[2].name = "Notification Bot" /\ users[2].kind = "notification-bot"
    BY <1>1 DEF FirstUsers
  <2> QED
    BY <2>1, <2>2
<1>3. DOMAIN call = Clients /\ \A c \in Clients : call[c] = Idle /\ Idle.pc = "free"
  BY DEF Init, StartsQuiet, Idle
<1> QED
  BY <1>1, <1>2, <1>3 DEF NamesInOrder

\* Whoever is minted, deactivated, reactivated by its owner or added in between,
\* and whatever twins a fixture made, no request makes an active user of a name
\* another active user has (in-process-realm.ts POST /bots, POST
\* /users/{id}/reactivate: it rests on humans having no owner who could bring them
\* back).
THEOREM NoRequestMakesTwins == Spec => RequestsMakeNoTwins
<1>1. NamesInOrder /\ [Next]_vars
        => [call' # call => \A u, v \in DOMAIN users' :
              Twins(u, v)' => u \in DOMAIN users /\ v \in DOMAIN users /\ Twins(u, v)]_vars
  BY NextNames DEF NoNewTwins
<1>2. NamesInOrder /\ [Next]_vars => NamesInOrder'
  BY NextNames
<1> QED
  BY StartsNamed, <1>1, <1>2, PTL DEF Spec, RequestsMakeNoTwins

-----------------------------------------------------------------------------
(* Event queues of the realm *)

\* A queue's pending events are the last it issued, without a gap, and no event
\* was dropped that is newer than all that reached the client.
QueueInOrder(x) ==
  /\ DOMAIN x = {"owner", "types", "lastIssued", "pending", "answered"}
  /\ x.lastIssued \in Nat \cup {-1}
  /\ x.answered \subseteq 0 .. x.lastIssued
  /\ x.pending \in Seq(Range(x.pending)) /\ Len(x.pending) <= x.lastIssued + 1
  /\ \A i \in 1 .. Len(x.pending) : x.pending[i].id = x.lastIssued - Len(x.pending) + i
  /\ \E n \in x.answered \cup {-1} : x.lastIssued - Len(x.pending) <= n

QueuesInOrder == \A q \in DOMAIN queues : QueueInOrder(queues[q])

\* What SilentToTheDeactivated says of a step.
StaysSilent ==
  \A q \in DOMAIN queues :
    /\ q \in DOMAIN queues'
    /\ queues'[q].lastIssued > queues[q].lastIssued
    /\ ~users[queues[q].owner].active
    => queues'[q].pending[Len(queues'[q].pending)].type = "heartbeat"

\* A set of numbers that is bounded has a greatest.
LEMMA GreatestExists ==
  ASSUME NEW k \in Int, NEW S, S \subseteq -1 .. k, S # {}
  PROVE  Max(S) \in S /\ \A j \in S : j <= Max(S)
<1> DEFINE Left == {k - i : i \in S}
<1>1. Left \subseteq Nat /\ Left # {}
  <2>1. \A i \in S : i \in Int /\ i <= k
    OBVIOUS
  <2>2. \A i \in S : k - i \in Nat
    BY <2>1
  <2> QED
    BY <2>2
<1>2. PICK n \in Left : \A m \in Left : <<m, n>> \notin OpToRel(<, Nat)
  BY <1>1, NatLessThanWellFounded, WFMin
<1>3. PICK i \in S : n = k - i
  BY <1>2
<1>4. \A j \in S : i >= j
  <2> TAKE j \in S
  <2>1. k - j \in Left /\ k - j \in Nat /\ n \in Nat
    BY <1>1
  <2>2. ~(k - j < n)
    BY <1>2, <2>1 DEF OpToRel
  <2>3. i \in Int /\ j \in Int
    OBVIOUS
  <2> QED
    BY <1>3, <2>2, <2>3
<1>5. Max(S) \in S /\ \A j \in S : Max(S) >= j
  BY <1>4 DEF Max
<1>6. \A j \in S : j \in Int
  OBVIOUS
<1> QED
  BY <1>5, <1>6

\* A sequence over a set is one over its range.
LEMMA IsRanged ==
  ASSUME NEW S, NEW s \in Seq(S)
  PROVE  s \in Seq(Range(s))
<1>1. Len(s) \in Nat /\ DOMAIN s = 1 .. Len(s) /\ s = [i \in 1 .. Len(s) |-> s[i]]
  OBVIOUS
<1>2. \A i \in 1 .. Len(s) : s[i] \in Range(s)
  BY <1>1 DEF Range
<1>3. s \in [1 .. Len(s) -> Range(s)]
  BY <1>1, <1>2
<1> QED
  BY <1>1, <1>3, SeqDef

\* A sequence with one more at its end.
LEMMA Appended ==
  ASSUME NEW s, s \in Seq(Range(s)), NEW e
  PROVE  /\ Append(s, e) \in Seq(Range(Append(s, e)))
         /\ Len(Append(s, e)) = Len(s) + 1 /\ Append(s, e)[Len(s) + 1] = e
         /\ \A i \in 1 .. Len(s) : Append(s, e)[i] = s[i]
<1>1. Append(s, e) \in Seq(Range(s) \cup {e})
  <2>1. s \in Seq(Range(s) \cup {e})
    BY DEF Range
  <2> QED
    BY <2>1
<1>2. /\ Len(Append(s, e)) = Len(s) + 1 /\ Append(s, e)[Len(s) + 1] = e
      /\ \A i \in 1 .. Len(s) : Append(s, e)[i] = s[i]
  OBVIOUS
<1>3. Append(s, e) \in Seq(Range(Append(s, e)))
  BY <1>1, IsRanged
<1> QED
  BY <1>2, <1>3

\* A queue that is handed an event issues it, and holds it last.
LEMMA EnqueuedInOrder ==
  ASSUME NEW x, QueueInOrder(x), NEW type, NEW m
  PROVE  LET y == Enqueued(x, type, m) IN
         /\ QueueInOrder(y) /\ y.lastIssued = x.lastIssued + 1
         /\ y.pending[Len(y.pending)].type = type
<1>1. PICK e : e = [id |-> x.lastIssued + 1, type |-> type, message |-> m]
  OBVIOUS
<1>2. PICK p : p = Append(x.pending, e)
  OBVIOUS
<1>3. PICK y : y = Enqueued(x, type, m)
  OBVIOUS
<1>4. /\ DOMAIN y = DOMAIN x /\ y.lastIssued = x.lastIssued + 1 /\ y.pending = p
      /\ y.answered = x.answered
  BY <1>1, <1>2, <1>3 DEF Enqueued, QueueInOrder
<1>5. /\ p \in Seq(Range(p)) /\ Len(p) = Len(x.pending) + 1 /\ p[Len(x.pending) + 1] = e
      /\ \A i \in 1 .. Len(x.pending) : p[i] = x.pending[i]
  BY <1>2, Appended DEF QueueInOrder
<1>6. /\ Len(x.pending) \in Nat /\ x.lastIssued \in Int /\ x.lastIssued >= -1
      /\ e.id = x.lastIssued + 1
  BY <1>1 DEF QueueInOrder
<1>7. \A i \in 1 .. Len(p) : p[i].id = y.lastIssued - Len(p) + i
  <2> TAKE i \in 1 .. Len(p)
  <2>1. CASE i \in 1 .. Len(x.pending)
    <3>1. p[i].id = x.lastIssued - Len(x.pending) + i
      BY <1>5, <2>1 DEF QueueInOrder
    <3> QED
      BY <1>4, <1>5, <1>6, <3>1
  <2>2. CASE i = Len(x.pending) + 1
    BY <1>4, <1>5, <1>6, <2>2
  <2> QED
    BY <1>5, <1>6, <2>1, <2>2
<1>8. y.answered \subseteq 0 .. y.lastIssued /\ Len(p) <= y.lastIssued + 1
  BY <1>4, <1>5, <1>6 DEF QueueInOrder
<1>9. \E n \in y.answered \cup {-1} : y.lastIssued - Len(p) <= n
  <2>1. y.lastIssued - Len(p) = x.lastIssued - Len(x.pending)
    BY <1>4, <1>5, <1>6
  <2> QED
    BY <1>4, <2>1 DEF QueueInOrder
<1>10. y.lastIssued \in Nat \cup {-1}
  BY <1>4, <1>6
<1>11. QueueInOrder(y)
  BY <1>4, <1>5, <1>7, <1>8, <1>9, <1>10 DEF QueueInOrder
<1>12. p[Len(p)].type = type
  BY <1>1, <1>5
<1> QED
  BY <1>3, <1>4, <1>11, <1>12

\* An answer changes only what reached the client.
LEMMA HeardInOrder ==
  ASSUME NEW x, QueueInOrder(x), NEW heard, heard \subseteq 0 .. x.lastIssued
  PROVE  LET y == [x EXCEPT !.answered = @ \cup heard] IN
         QueueInOrder(y) /\ y.lastIssued = x.lastIssued /\ y.pending = x.pending
<1>1. PICK y : y = [x EXCEPT !.answered = @ \cup heard]
  OBVIOUS
<1>2. /\ DOMAIN y = DOMAIN x /\ y.lastIssued = x.lastIssued /\ y.pending = x.pending
      /\ y.answered = x.answered \cup heard
  BY <1>1 DEF QueueInOrder
<1>3. QueueInOrder(y)
  BY <1>2 DEF QueueInOrder
<1> QED
  BY <1>1, <1>2, <1>3

\* What pends after an id is an end of what pends, and its ids were issued.
LEMMA AfterIssued ==
  ASSUME NEW q \in DOMAIN queues, QueueInOrder(queues[q]), NEW ack
  PROVE  IdsOf(After(q, ack)) \subseteq 0 .. queues[q].lastIssued
<1> DEFINE p == queues[q].pending
           seen == Cardinality({i \in DOMAIN p : p[i].id <= ack})
<1>1. Len(p) \in Nat /\ DOMAIN p = 1 .. Len(p) /\ p \in Seq(Range(p))
  BY DEF QueueInOrder
<1>2. seen \in Nat
  <2>1. IsFiniteSet(1 .. Len(p))
    BY <1>1, FS_Interval
  <2> QED
    BY <1>1, <2>1, FS_Subset, FS_CardinalityType
<1>3. After(q, ack) = SubSeq(p, seen + 1, Len(p))
  BY DEF After
<1> HIDE DEF seen
<1>4. \A i \in DOMAIN SubSeq(p, seen + 1, Len(p)) :
        seen + i \in 1 .. Len(p) /\ SubSeq(p, seen + 1, Len(p))[i] = p[seen + i]
  BY <1>1, <1>2
<1>5. \A i \in 1 .. Len(p) : p[i].id \in 0 .. queues[q].lastIssued
  BY <1>1 DEF QueueInOrder
<1> QED
  BY <1>3, <1>4, <1>5 DEF IdsOf

\* The newest event a client was answered was issued to it.
LEMMA NewestIssued ==
  ASSUME NEW q \in DOMAIN queues, QueueInOrder(queues[q])
  PROVE  /\ Newest(q) \in queues[q].answered \cup {-1}
         /\ Newest(q) \in -1 .. queues[q].lastIssued
         /\ queues[q].lastIssued - Len(queues[q].pending) <= Newest(q)
<1> DEFINE S == queues[q].answered \cup {-1}
<1>1. S \subseteq -1 .. queues[q].lastIssued /\ queues[q].lastIssued \in Int
  BY DEF QueueInOrder
<1>2. Newest(q) \in S /\ \A j \in S : j <= Newest(q)
  BY <1>1, GreatestExists DEF Newest
<1>3. PICK n \in S : queues[q].lastIssued - Len(queues[q].pending) <= n
  BY DEF QueueInOrder
<1>4. n <= Newest(q) /\ n \in Int /\ Newest(q) \in Int /\ Len(queues[q].pending) \in Nat
  BY <1>1, <1>2, <1>3 DEF QueueInOrder
<1>5. queues[q].lastIssued - Len(queues[q].pending) <= Newest(q)
  BY <1>1, <1>3, <1>4
<1> QED
  BY <1>1, <1>2, <1>5

\* Pruning up to the newest event the client was answered leaves the others.
LEMMA PrunedInOrder ==
  ASSUME NEW q \in DOMAIN queues, QueueInOrder(queues[q])
  PROVE  LET y == [queues[q] EXCEPT !.pending = After(q, Newest(q))] IN
         QueueInOrder(y) /\ y.lastIssued = queues[q].lastIssued
<1>1. PICK p : p = queues[q].pending
  OBVIOUS
<1>2. PICK last : last = queues[q].lastIssued
  OBVIOUS
<1>3. PICK n : n = Newest(q)
  OBVIOUS
<1>4. /\ p \in Seq(Range(p)) /\ Len(p) \in Nat /\ DOMAIN p = 1 .. Len(p)
      /\ last \in Nat \cup {-1} /\ Len(p) <= last + 1
      /\ \A i \in 1 .. Len(p) : p[i].id = last - Len(p) + i
  BY <1>1, <1>2 DEF QueueInOrder
<1>5. /\ n \in queues[q].answered \cup {-1} /\ n \in -1 .. last /\ n \in Int
      /\ last - Len(p) <= n /\ n <= last
  BY <1>1, <1>2, <1>3, <1>4, NewestIssued
<1> DEFINE base == last - Len(p)
<1>6. {i \in DOMAIN p : p[i].id <= n} = 1 .. n - base
  <2>1. \A i \in 1 .. Len(p) : p[i].id <= n <=> i <= n - base
    BY <1>4, <1>5
  <2>2. n - base \in 0 .. Len(p)
    BY <1>4, <1>5
  <2> QED
    BY <1>4, <2>1, <2>2
<1>7. PICK seen : seen = n - base
  OBVIOUS
<1>8. seen \in 0 .. Len(p) /\ Cardinality({i \in DOMAIN p : p[i].id <= n}) = seen
  <2>1. seen \in 0 .. Len(p)
    BY <1>4, <1>5, <1>7
  <2>2. Cardinality(1 .. seen) = seen
    BY <2>1, FS_Interval
  <2> QED
    BY <1>6, <1>7, <2>1, <2>2
<1>9. PICK r : r = SubSeq(p, seen + 1, Len(p))
  OBVIOUS
<1>10. After(q, Newest(q)) = r
  BY <1>1, <1>3, <1>8, <1>9 DEF After
<1>11. /\ r \in Seq(Range(p)) /\ Len(r) = Len(p) - seen
       /\ \A i \in 1 .. Len(r) : r[i] = p[seen + i] /\ seen + i \in 1 .. Len(p)
  <2>1. Len(r) = Len(p) - seen /\ DOMAIN r = 1 .. Len(p) - seen
    <3>1. seen + 1 \in 1 .. Len(p) + 1 /\ Len(p) \in (seen + 1) - 1 .. Len(p)
      BY <1>4, <1>8
    <3>2. Len(r) = Len(p) - (seen + 1) + 1
      BY <1>4, <1>9, <3>1, SubSeqProperties
    <3>3. Len(r) = Len(p) - seen
      BY <1>4, <1>8, <3>2
    <3>4. r \in Seq(Range(p))
      BY <1>4, <1>8, <1>9
    <3>5. DOMAIN r = 1 .. Len(r)
      BY <3>4
    <3> QED
      BY <3>3, <3>5
  <2>2. \A i \in 1 .. Len(p) - seen : seen + i \in 1 .. Len(p)
    BY <1>4, <1>8
  <2>3. \A i \in 1 .. Len(p) - seen : r[i] = p[seen + i]
    BY <1>4, <1>8, <1>9
  <2>4. r \in Seq(Range(p))
    BY <1>4, <1>8, <1>9
  <2> QED
    BY <2>1, <2>2, <2>3, <2>4
<1>12. r \in Seq(Range(r))
  BY <1>11, IsRanged
<1>13. \A i \in 1 .. Len(r) : r[i].id = last - Len(r) + i
  <2> TAKE i \in 1 .. Len(r)
  <2>1. r[i].id = last - Len(p) + (seen + i)
    BY <1>4, <1>11
  <2> QED
    BY <1>4, <1>8, <1>11, <2>1
<1>14. last - Len(r) <= n /\ Len(r) <= last + 1
  BY <1>4, <1>5, <1>7, <1>8, <1>11
<1>15. PICK y : y = [queues[q] EXCEPT !.pending = After(q, Newest(q))]
  OBVIOUS
<1>16. /\ DOMAIN y = DOMAIN queues[q] /\ y.pending = r /\ y.lastIssued = last
       /\ y.answered = queues[q].answered
  BY <1>2, <1>10, <1>15 DEF QueueInOrder
<1>17. QueueInOrder(y)
  BY <1>2, <1>4, <1>5, <1>12, <1>13, <1>14, <1>16 DEF QueueInOrder
<1> QED
  BY <1>2, <1>15, <1>16, <1>17

-----------------------------------------------------------------------------
(* The queues stay in order, and the deactivated hear nothing *)

\* A queue that is still there is as it was, or issued nothing.
LEMMA QueuesKept ==
  ASSUME QueuesInOrder,
         \A q \in DOMAIN queues' :
           \/ q \in DOMAIN queues /\ queues'[q] = queues[q]
           \/ /\ QueueInOrder(queues'[q])
              /\ q \in DOMAIN queues => queues'[q].lastIssued <= queues[q].lastIssued
  PROVE  QueuesInOrder' /\ StaysSilent
<1>1. QueuesInOrder'
  BY DEF QueuesInOrder, QueueInOrder
<1>2. ASSUME NEW q \in DOMAIN queues, q \in DOMAIN queues'
      PROVE  ~(queues'[q].lastIssued > queues[q].lastIssued)
  <2>1. /\ queues'[q].lastIssued <= queues[q].lastIssued
        /\ queues'[q].lastIssued \in Int /\ queues[q].lastIssued \in Int
    <3>1. queues[q].lastIssued \in Int
      BY <1>2 DEF QueuesInOrder, QueueInOrder
    <3>2. CASE queues'[q] = queues[q]
      BY <3>1, <3>2
    <3>3. CASE QueueInOrder(queues'[q]) /\ queues'[q].lastIssued <= queues[q].lastIssued
      BY <3>1, <3>3 DEF QueueInOrder
    <3> QED
      BY <1>2, <3>2, <3>3
  <2> QED
    BY <2>1
<1> QED
  BY <1>1, <1>2 DEF StaysSilent

\* Delivery to the active adds at the end of queues of theirs alone,
LEMMA DeliverInOrder ==
  ASSUME QueuesInOrder, NEW audience, NEW ids, audience = ActiveIds(ids), NEW type, NEW m,
         Deliver(audience, type, m)
  PROVE  QueuesInOrder' /\ StaysSilent
<1> DEFINE reached == {q \in DOMAIN queues :
                        queues[q].owner \in audience /\ Wants(queues[q], type)}
<1>1. /\ DOMAIN queues' = DOMAIN queues
      /\ \A q \in DOMAIN queues :
           queues'[q] = IF q \in reached THEN Enqueued(queues[q], type, m) ELSE queues[q]
  BY DEF Deliver
<1>2. QueuesInOrder'
  <2>1. ASSUME NEW q \in DOMAIN queues PROVE QueueInOrder(queues'[q])
    <3>1. QueueInOrder(queues[q])
      BY DEF QueuesInOrder
    <3>2. QueueInOrder(Enqueued(queues[q], type, m))
      BY <3>1, EnqueuedInOrder
    <3> QED
      BY <1>1, <3>1, <3>2
  <2> QED
    BY <1>1, <2>1 DEF QueuesInOrder, QueueInOrder
<1>3. ASSUME NEW q \in DOMAIN queues, ~users[queues[q].owner].active
      PROVE  ~(queues'[q].lastIssued > queues[q].lastIssued)
  <2>1. q \notin reached
    BY <1>3 DEF ActiveIds
  <2>2. queues'[q] = queues[q] /\ queues[q].lastIssued \in Int
    BY <1>1, <2>1 DEF QueuesInOrder, QueueInOrder
  <2> QED
    BY <2>2
<1> QED
  BY <1>2, <1>3 DEF StaysSilent

\* and a message is delivered to the active.
LEMMA StoreInOrder ==
  ASSUME QueuesInOrder, NEW others, NEW sender, NEW ch, NEW topic, NEW body,
         StoreMessage(others, sender, ch, topic, body)
  PROVE  QueuesInOrder' /\ StaysSilent
<1> DEFINE m == Stored(sender, ch, topic, body)
<1>1. m.receivedBy = ActiveIds(channels[ch] \cup Bots(Rendered(body)))
  BY DEF Stored
<1>2. Deliver(m.receivedBy, "message", Len(others) + 1)
  BY DEF StoreMessage
<1> HIDE DEF m
<1> QED
  BY <1>1, <1>2, DeliverInOrder

LEMMA UnchangedInOrder ==
  ASSUME QueuesInOrder, UNCHANGED queues
  PROVE  QueuesInOrder' /\ StaysSilent
  BY QueuesKept

\* A deactivation takes queues away.
LEMMA DeactivateInOrder ==
  ASSUME QueuesInOrder, NEW u, Deactivate(u)
  PROVE  QueuesInOrder' /\ StaysSilent
<1>1. \A q \in DOMAIN queues' : q \in DOMAIN queues /\ queues'[q] = queues[q]
  BY DEF Deactivate
<1> QED
  BY <1>1, QueuesKept

LEMMA PeopleInOrder ==
  ASSUME QueuesInOrder, NEW c \in Clients, HandlePeople(c)
  PROVE  QueuesInOrder' /\ StaysSilent
<1>1. CASE UNCHANGED queues
  BY <1>1, UnchangedInOrder
<1>2. ASSUME NEW u, DeleteBot(call[c].user, u)
      PROVE  QueuesInOrder' /\ StaysSilent
  BY <1>2, DeactivateInOrder DEF DeleteBot
<1> QED
  BY <1>1, <1>2 DEF HandlePeople, delivery

LEMMA ContentInOrder ==
  ASSUME QueuesInOrder, NEW c \in Clients, HandleContent(c)
  PROVE  QueuesInOrder' /\ StaysSilent
<1>1. CASE UNCHANGED queues
  BY <1>1, UnchangedInOrder
<1>2. ASSUME NEW ch, NEW t, NEW b, PostMessage(call[c].user, ch, t, b)
      PROVE  QueuesInOrder' /\ StaysSilent
  BY <1>2, StoreInOrder DEF PostMessage
<1>3. ASSUME NEW m, NEW t, NEW mode, EditTopic(call[c].user, m, t, mode), ~UNCHANGED queues
      PROVE  QueuesInOrder' /\ StaysSilent
  BY <1>3, StoreInOrder DEF EditTopic
<1>4. ASSUME NEW m, NEW op, NEW e, React(call[c].user, op, m, e)
      PROVE  QueuesInOrder' /\ StaysSilent
  BY <1>4, DeliverInOrder DEF React, ReactionAudience
<1> QED
  BY <1>1, <1>2, <1>3, <1>4 DEF HandleContent, EditBody

LEMMA HandleQueuesInOrder ==
  ASSUME QueuesInOrder, NEW c \in Clients, HandleQueues(c)
  PROVE  QueuesInOrder' /\ StaysSilent
<1>1. ASSUME NEW types, Register(call[c].user, types)
      PROVE  QueuesInOrder' /\ StaysSilent
  <2> DEFINE new == [owner |-> call[c].user, types |-> types, lastIssued |-> -1,
                     pending |-> << >>, answered |-> {}]
  <2>1. QueueInOrder(new)
    <3>1. Len(<< >>) = 0 /\ << >> \in Seq(Range(<< >>))
      OBVIOUS
    <3> QED
      BY <3>1 DEF QueueInOrder
  <2>2. \A q \in DOMAIN queues : new.lastIssued <= queues[q].lastIssued
    BY DEF QueuesInOrder, QueueInOrder
  <2> HIDE DEF new
  <2>3. \A q \in DOMAIN queues' :
          \/ q \in DOMAIN queues /\ queues'[q] = queues[q]
          \/ queues'[q] = new
    BY <1>1 DEF Register, new
  <2> QED
    BY <2>1, <2>2, <2>3, QueuesKept
<1>2. ASSUME NEW q, DeleteQueue(call[c].user, q)
      PROVE  QueuesInOrder' /\ StaysSilent
  <2>1. \A p \in DOMAIN queues' : p \in DOMAIN queues /\ queues'[p] = queues[p]
    BY <1>2 DEF DeleteQueue
  <2> QED
    BY <2>1, QueuesKept
<1> QED
  BY <1>1, <1>2 DEF HandleQueues

\* Polls prune and answer; neither issues anything.
LEMMA PollsInOrder ==
  ASSUME QueuesInOrder, NEW c \in Clients, HandlePoll(c) \/ PollAnswers(c)
  PROVE  QueuesInOrder' /\ StaysSilent
<1>1. ASSUME NEW q \in DOMAIN queues, PollPrunes(c, q)
      PROVE  QueuesInOrder' /\ StaysSilent
  <2>1. /\ DOMAIN queues' = DOMAIN queues
        /\ \A p \in DOMAIN queues : p # q => queues'[p] = queues[p]
        /\ queues'[q] = [queues[q] EXCEPT !.pending = After(q, Newest(q))]
    BY <1>1 DEF PollPrunes
  <2>2. QueueInOrder(queues[q])
    BY DEF QueuesInOrder
  <2>3. QueueInOrder(queues'[q]) /\ queues'[q].lastIssued = queues[q].lastIssued
    BY <2>1, <2>2, PrunedInOrder
  <2>4. queues'[q].lastIssued <= queues[q].lastIssued
    BY <2>2, <2>3 DEF QueueInOrder
  <2> QED
    BY <2>1, <2>3, <2>4, QueuesKept
<1>2. ASSUME PollAnswers(c)
      PROVE  QueuesInOrder' /\ StaysSilent
  <2>1. PICK q : q = call[c].queue
    OBVIOUS
  <2>2. PICK heard \in {IdsOf(After(q, call[c].ack)), {}} :
          queues' = [queues EXCEPT ![q].answered = @ \cup heard] /\ q \in DOMAIN queues
    BY <1>2, <2>1 DEF PollAnswers, OwnQueue, Reaching
  <2>3. QueueInOrder(queues[q])
    BY <2>2 DEF QueuesInOrder
  <2>4. heard \subseteq 0 .. queues[q].lastIssued
    BY <2>2, <2>3, AfterIssued
  <2>5. /\ DOMAIN queues' = DOMAIN queues
        /\ \A p \in DOMAIN queues : p # q => queues'[p] = queues[p]
        /\ queues'[q] = [queues[q] EXCEPT !.answered = @ \cup heard]
    BY <2>2
  <2>6. QueueInOrder(queues'[q]) /\ queues'[q].lastIssued = queues[q].lastIssued
    BY <2>3, <2>4, <2>5, HeardInOrder
  <2>7. queues'[q].lastIssued <= queues[q].lastIssued
    BY <2>3, <2>6 DEF QueueInOrder
  <2> QED
    BY <2>5, <2>6, <2>7, QueuesKept
<1> QED
  BY <1>1, <1>2 DEF HandlePoll

\* A heartbeat is queued for whoever polls, and is all that is.
LEMMA BeatInOrder ==
  ASSUME QueuesInOrder, NEW c \in Clients, PollBeats(c)
  PROVE  QueuesInOrder' /\ StaysSilent
<1>1. PICK q : q = call[c].queue
  OBVIOUS
<1>2. PICK beaten : beaten = Enqueued(queues[q], "heartbeat", 0)
  OBVIOUS
<1>3. PICK heard \in {{beaten.lastIssued}, {}} :
        queues' = [queues EXCEPT ![q] = [beaten EXCEPT !.answered = @ \cup heard]]
  BY <1>1, <1>2 DEF PollBeats, Reaching
<1>4. q \in DOMAIN queues /\ QueueInOrder(queues[q])
  BY <1>1 DEF PollBeats, OwnQueue, QueuesInOrder
<1>5. /\ QueueInOrder(beaten) /\ beaten.lastIssued = queues[q].lastIssued + 1
      /\ beaten.pending[Len(beaten.pending)].type = "heartbeat"
  BY <1>2, <1>4, EnqueuedInOrder
<1>6. heard \subseteq 0 .. beaten.lastIssued
  BY <1>3, <1>4, <1>5 DEF QueueInOrder
<1>7. /\ DOMAIN queues' = DOMAIN queues
      /\ \A p \in DOMAIN queues : p # q => queues'[p] = queues[p]
      /\ queues'[q] = [beaten EXCEPT !.answered = @ \cup heard]
  BY <1>3, <1>4
<1>8. QueueInOrder(queues'[q]) /\ queues'[q].pending = beaten.pending
  <2>1. LET y == [beaten EXCEPT !.answered = @ \cup heard] IN
        QueueInOrder(y) /\ y.pending = beaten.pending
    BY <1>5, <1>6, HeardInOrder
  <2> QED
    BY <1>7, <2>1
<1>9. QueuesInOrder'
  <2>1. \A p \in DOMAIN queues : QueueInOrder(queues'[p])
    BY <1>7, <1>8 DEF QueuesInOrder
  <2> QED
    BY <1>7, <2>1 DEF QueuesInOrder, QueueInOrder
<1>10. StaysSilent
  <2>1. ASSUME NEW p \in DOMAIN queues, p # q
        PROVE  ~(queues'[p].lastIssued > queues[p].lastIssued)
    <3>1. queues'[p] = queues[p] /\ queues[p].lastIssued \in Int
      BY <1>7, <2>1 DEF QueuesInOrder, QueueInOrder
    <3> QED
      BY <3>1
  <2> QED
    BY <1>5, <1>8, <2>1 DEF StaysSilent
<1> QED
  BY <1>9, <1>10

LEMMA FixtureInOrder ==
  ASSUME QueuesInOrder, Fixture
  PROVE  QueuesInOrder' /\ StaysSilent
<1>1. CASE UNCHANGED queues
  BY <1>1, UnchangedInOrder
<1>2. ASSUME NEW u, Deactivate(u)
      PROVE  QueuesInOrder' /\ StaysSilent
  BY <1>2, DeactivateInOrder
<1> QED
  BY <1>1, <1>2 DEF Fixture, delivery

LEMMA NextQueuesInOrder == QueuesInOrder /\ [Next]_vars => QueuesInOrder' /\ StaysSilent
<1> SUFFICES ASSUME QueuesInOrder, [Next]_vars PROVE QueuesInOrder' /\ StaysSilent
  OBVIOUS
<1>1. CASE UNCHANGED vars
  BY <1>1, UnchangedInOrder DEF vars
<1>2. ASSUME NEW c \in Clients, NEW u, NEW key, Authenticates(c, u, key)
      PROVE  QueuesInOrder' /\ StaysSilent
  BY <1>2, UnchangedInOrder DEF Authenticates, realmVars
<1>3. ASSUME NEW c \in Clients, Refuses(c) \/ PollRefused(c) \/ PollTimesOut(c)
      PROVE  QueuesInOrder' /\ StaysSilent
  BY <1>3, UnchangedInOrder DEF Refuses, PollRefused, PollTimesOut, realmVars
<1>4. ASSUME NEW c \in Clients,
             \/ HandlePeople(c) \/ HandleContent(c) \/ HandleQueues(c) \/ HandlePoll(c)
             \/ PollAnswers(c) \/ PollBeats(c)
      PROVE  QueuesInOrder' /\ StaysSilent
  BY <1>4, PeopleInOrder, ContentInOrder, HandleQueuesInOrder, PollsInOrder, BeatInOrder
<1> QED
  BY <1>1, <1>2, <1>3, <1>4, FixtureInOrder DEF Next

LEMMA AlwaysInOrder == Spec => []QueuesInOrder
<1>1. Init => QueuesInOrder
  BY DEF Init, StartsQuiet, QueuesInOrder
<1> QED
  BY <1>1, NextQueuesInOrder, PTL DEF Spec

\* An event a client has not reached is still in its queue, whatever answers were
\* lost and however many polls of it are open at once: a poll prunes up to the
\* last_event_id it carries, and no further (in-process-realm.ts pollEvents).
THEOREM UnreadIsKept == Spec => []QueueKeepsTheUnread
<1>1. QueuesInOrder => QueueKeepsTheUnread
  <2> SUFFICES ASSUME QueuesInOrder, NEW q \in DOMAIN queues, NEW e \in EventIds,
                      Newest(q) < e, e <= queues[q].lastIssued
               PROVE  e \in IdsOf(queues[q].pending)
    BY DEF QueueKeepsTheUnread
  <2> DEFINE p == queues[q].pending
             base == queues[q].lastIssued - Len(p)
  <2>1. QueueInOrder(queues[q])
    BY DEF QueuesInOrder
  <2>0. queues[q].lastIssued \in Int /\ Len(p) \in Nat /\ DOMAIN p = 1 .. Len(p)
    BY <2>1 DEF QueueInOrder
  <2>2. /\ Newest(q) \in Int /\ base <= Newest(q) /\ Len(p) \in Nat /\ DOMAIN p = 1 .. Len(p)
        /\ queues[q].lastIssued \in Int /\ e \in Int
    BY <2>0, <2>1, NewestIssued, RealmAssumption DEF EventIds, RealmAssumption
  <2>3. e - base \in 1 .. Len(p)
    BY <2>2
  <2>4. p[e - base].id = base + (e - base)
    BY <2>1, <2>3 DEF QueueInOrder
  <2>5. p[e - base].id = e
    BY <2>2, <2>4
  <2> QED
    BY <2>2, <2>3, <2>5 DEF IdsOf
<1> QED
  BY <1>1, AlwaysInOrder, PTL

\* Nothing but a heartbeat is queued for a user who is deactivated, also in a
\* queue that a request under way registers after the deactivation (activeIds in
\* in-process-realm.ts storeMessage and reactionAudience).
THEOREM DeactivatedHearNothing == Spec => SilentToTheDeactivated
<1>1. QueuesInOrder /\ [Next]_vars => [StaysSilent]_vars
  BY NextQueuesInOrder
<1> QED
  BY <1>1, AlwaysInOrder, PTL DEF Spec, SilentToTheDeactivated, StaysSilent
=============================================================================
