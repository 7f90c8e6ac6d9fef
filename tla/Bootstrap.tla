------------------------------- MODULE Bootstrap -------------------------------
(***************************************************************************)
(* What a seat makes of its environment (mcp/bootstrap.ts and the boot of  *)
(* mcp/server.ts), over the processes that serve it one after another.     *)
(*                                                                         *)
(* A process parses its environment or refuses to start.  With a bot name  *)
(* it signs in as that bot, registers the project's default narrows and    *)
(* seeds COMMY_SUBSCRIBE into a bot it has just minted.  Without one it is *)
(* an ephemeral seat, whose bots are named after the session and after the *)
(* project each call comes from: that part is IdentityBinding, with the    *)
(* names added.  A text is a sequence of characters or of the pieces its   *)
(* reader tells apart.                                                     *)
(***************************************************************************)
EXTENDS IdentityBinding, SequencesExt

CONSTANTS
  Envs,         \* environments a process may be launched with
  Places,       \* directories a process or a call may be in
  RemoteName,   \* of a place, its origin's basename, "" (here <<>>) if none
  RootName,     \* of a place, its checkout's basename, <<>> outside any
  BotNames,     \* the values of COMMY_BOT_NAME a realm takes as a bot name
  NamePart,     \* how many characters of a project a bot name carries
  DefaultIdle, MaxIdle  \* the queue's idle timeout: unset, and its ceiling

ASSUME BootstrapAssumption ==
  /\ RemoteName \in [Places -> Seq({"a", "b", "1", "-", "_"})]
  /\ RootName \in [Places -> Seq({"a", "b", "1", "-", "_"})]
  /\ \A e \in Envs : e.project.is \in {"absent", "empty", "unset", "broken", "text"}
  /\ NamePart \in Nat
  /\ DefaultIdle \in 1 .. MaxIdle

VARIABLES
  phase,     \* "down", "refused", "ephemeral", or a pinned seat's "signing",
             \* "defaults", "seeding", "signed"
  env,       \* this process's environment
  home,      \* where it was launched, and the project that gave
  called,    \* the bot name each EnsureBound was made with
  caller,    \* the project of each call
  acting,    \* the name the adapter's binding was acquired under, or <<>>
  named,     \* history: <<session, bot name>> of every bot of this process
  settled,   \* history: no call of this process came from another checkout,
             \* and no git answered one question of two
  pinned,    \* the pinned bot: whether the realm has it, and as this process
             \* found it
  todo,      \* intents still to declare
  held,      \* the channels the pinned bot is subscribed to
  applied,   \* history: the intents seeded
  left       \* history: the channels the agent unsubscribed from for good

boot == <<phase, env, home>>
naming == <<called, caller, acting, named, settled>>
pinning == <<pinned, todo, held, applied, left>>
bootVars == <<vars, boot, naming, pinning>>

-----------------------------------------------------------------------------
(* Reading one key.  A raw value is [is |-> "absent"], "empty", "unset" (the *)
(* literal ${user_config.KEY}), "broken" (any other ${...}) or [is |->       *)
(* "text", v |-> ...].                                                       *)

None == [is |-> "none"]
Bad == [is |-> "bad"]
Some(v) == [is |-> "some", v |-> v]

UserConfigString(raw) ==
  CASE raw.is \in {"absent", "empty", "unset"} -> None
    [] raw.is = "broken" -> Bad
    [] OTHER -> Some(raw.v)

OptionalNonEmpty(raw) ==
  CASE raw.is = "absent" -> None
    [] raw.is \in {"empty", "unset", "broken"} -> Bad
    [] OTHER -> Some(raw.v)

\* KEY_USER_CONFIG first, and only when it is unset the bare KEY.
OptionalUserConfig(plugin, own) ==
  IF UserConfigString(plugin) = None THEN UserConfigString(own)
  ELSE UserConfigString(plugin)

\* Text that must be a number no less than least; -1 stands for any other text.
AtLeast(least, parsed) ==
  IF parsed.is = "some" /\ parsed.v < least THEN Bad ELSE parsed

QueueIdleTimeoutSecs(plugin, own) ==
  LET secs == AtLeast(1, OptionalUserConfig(plugin, own)) IN
  CASE secs = None -> Some(DefaultIdle)
    [] secs = Bad -> Bad
    [] OTHER -> Some(IF secs.v < MaxIdle THEN secs.v ELSE MaxIdle)

OptionalBotName(raw) ==
  LET name == OptionalNonEmpty(raw) IN
  IF name.is = "some" /\ name.v \notin BotNames THEN Bad ELSE name

-----------------------------------------------------------------------------
(* Projects and names *)

\* Lowercase letters, digits and single inner dashes, beginning with a letter;
\* <<>> when nothing usable is left.
SanitiseProjectSlug(text) ==
  LET dashed == [i \in DOMAIN text |-> IF text[i] \in {"_", "/"} THEN "-" ELSE text[i]]
      inner(i) == /\ \E j \in 1 .. i - 1 : dashed[j] # "-"
                  /\ \E j \in i + 1 .. Len(text) : dashed[j] # "-"
                  /\ dashed[i - 1] # "-"
      kept == SetToSortSeq({i \in DOMAIN text : dashed[i] # "-" \/ inner(i)}, <)
      slug == [j \in DOMAIN kept |-> dashed[kept[j]]]
  IN IF slug = <<>> \/ slug[1] \in {"1"} THEN <<>> ELSE slug

\* cc-<project>-<8>: the session and what is kept of the project.
ComposeBotName(session, project) ==
  LET cut == SubSeq(project, 1, IF Len(project) < NamePart THEN Len(project) ELSE NamePart)
      whole == IF cut # <<>> /\ Last(cut) = "-" THEN Front(cut) ELSE cut
  IN <<whole, session>>

\* What git says of a place: its two questions may each go unanswered.
GitContexts(place) ==
  {[root |-> <<>>, remote |-> <<>>], [root |-> RootName[place], remote |-> <<>>],
   [root |-> RootName[place], remote |-> RemoteName[place]]}
Answered(git, place) == git \in {[root |-> <<>>, remote |-> <<>>],
                                 [root |-> RootName[place], remote |-> RemoteName[place]]}

DeriveProject(git) ==
  IF git.root = <<>> THEN <<>>
  ELSE SanitiseProjectSlug(IF git.remote # <<>> THEN git.remote ELSE git.root)

-----------------------------------------------------------------------------
(* COMMY_SUBSCRIBE: a sequence of tokens, a token the pieces of its text.    *)

\* Forms the grammar no longer takes are refused, never taken for a channel.
Retired(token) ==
  token # <<>> /\ (token[1] \in {"channel:", "thread:"} \/ token = <<"mentions">>)

\* Only the first slash divides: a topic may hold more.
ParseSubscribeTarget(token) ==
  LET slashes == {i \in DOMAIN token : token[i] = "/"}
      slash == CHOOSE i \in slashes : \A j \in slashes : i <= j
      intent == IF token # <<>> /\ token[1] = "new-topics:"
                  THEN [kind |-> "new-topics-in-channel", channel |-> Tail(token), thread |-> <<>>]
                ELSE IF slashes = {}
                  THEN [kind |-> "channel", channel |-> token, thread |-> <<>>]
                ELSE [kind |-> "thread", channel |-> SubSeq(token, 1, slash - 1),
                      thread |-> SubSeq(token, slash + 1, Len(token))]
  IN IF \/ token = <<>> \/ Retired(token)
        \/ intent.channel = <<>> \/ (intent.kind = "thread" /\ intent.thread = <<>>)
       THEN Bad ELSE Some(intent)

\* The exact inverse.
IntentToToken(intent) ==
  CASE intent.kind = "channel" -> intent.channel
    [] intent.kind = "new-topics-in-channel" -> <<"new-topics:">> \o intent.channel
    [] OTHER -> intent.channel \o <<"/">> \o intent.thread

-----------------------------------------------------------------------------
(* The whole environment                                                     *)

\* parseEnv, and whether it refuses.
ParseEnv(e) ==
  LET project == OptionalNonEmpty(e.project)
      slug == IF project.is = "some" THEN SanitiseProjectSlug(project.v) ELSE <<>>
  IN [name |-> OptionalBotName(e.name),
      key |-> OptionalNonEmpty(e.key),
      subscribe |-> OptionalUserConfig(e.plugin.subscribe, e.own.subscribe),
      project |-> IF project = Bad THEN Bad ELSE IF slug = <<>> THEN None ELSE Some(slug),
      window |-> AtLeast(0, OptionalUserConfig(e.plugin.window, e.own.window)),
      idle |-> QueueIdleTimeoutSecs(e.plugin.idle, e.own.idle),
      dir |-> OptionalNonEmpty(e.dir)]

Refused(e) ==
  LET c == ParseEnv(e) IN
  \/ e.site.is # "text"
  \/ \E k \in DOMAIN c : c[k] = Bad
  \/ c.key # None /\ c.name = None
  \/ c.dir = Some("gone")

Config == ParseEnv(env)

ProjectForCwd(c, git) == IF c.project # None THEN c.project.v ELSE DeriveProject(git)

\* Mistaken variant: a call from no project is a call of no project.
ProjectForCall_Bare(git) == ProjectForCwd(Config, git)

\* A call whose directory names none belongs to the project of the launch.
ProjectForCall(git) ==
  LET project == ProjectForCwd(Config, git) IN
  IF project = <<>> THEN home.project ELSE project

-----------------------------------------------------------------------------
(* Processes                                                                 *)

BootInit ==
  /\ Init
  /\ phase = "down" /\ env \in Envs
  /\ home \in [place : Places, project : {<<>>}]
  /\ called = [e \in Entries |-> <<>>]
  /\ caller = [c \in Calls |-> <<>>]
  /\ acting = <<>> /\ named = {} /\ settled = FALSE
  /\ pinned = [exists |-> FALSE, origin |-> "none"]
  /\ todo = <<>> /\ held = {} /\ applied = <<>> /\ left = {}

\* A seat is launched with another environment, never under another bot name.
Launch(e, place) ==
  /\ phase = "down" /\ e.name = env.name /\ env' = e
  /\ \E git \in GitContexts(place) :
       /\ home' = [place |-> place,
                   project |-> IF Refused(e) THEN <<>> ELSE ProjectForCwd(ParseEnv(e), git)]
       /\ settled' = (git = [root |-> RootName[place], remote |-> RemoteName[place]])
  /\ phase' = IF Refused(e) THEN "refused"
              ELSE IF ParseEnv(e).name = None THEN "ephemeral" ELSE "signing"
  /\ UNCHANGED <<vars, called, caller, acting, named, pinning>>

\* The process goes; the realm keeps the pinned bot and its subscriptions.
Exit ==
  /\ phase # "down" /\ phase' = "down"
  /\ slot' = NoEntry /\ minted' = 0 /\ bound' = NoSession /\ sent' = {} /\ crossed' = FALSE
  /\ owner' = [e \in Entries |-> NoSession]
  /\ prior' = [e \in Entries |-> NoEntry]
  /\ status' = [e \in Entries |-> "idle"]
  /\ call' = [c \in Calls |-> Idle]
  /\ called' = [e \in Entries |-> <<>>]
  /\ caller' = [c \in Calls |-> <<>>]
  /\ acting' = <<>> /\ named' = {} /\ settled' = FALSE
  /\ pinned' = [pinned EXCEPT !.origin = "none"]
  /\ todo' = <<>> /\ applied' = <<>>
  /\ UNCHANGED <<env, home, held, left>>

-----------------------------------------------------------------------------
(* An ephemeral seat                                                         *)

\* deriveBotName, for an EnsureBound minted in this step.
Names(s, project) ==
  called' = IF minted' = minted THEN called
            ELSE [called EXCEPT ![slot'] = ComposeBotName(s, project)]

Wanders(place, git) ==
  settled' = (settled /\ (place = home.place \/ RootName[place] = <<>>) /\ Answered(git, place))

\* A call is stamped with the directory it comes from.
CallStarts(c, s, place) ==
  /\ phase = "ephemeral" /\ StartCall(c, s)
  /\ \E git \in GitContexts(place) :
       /\ Names(s, ProjectForCall(git))
       /\ caller' = [caller EXCEPT ![c] = ProjectForCall(git)]
       /\ Wanders(place, git)
  /\ UNCHANGED <<acting, named, boot, pinning>>

LooksUp(s, place) ==
  /\ phase = "ephemeral" /\ Peek(s)
  /\ \E git \in GitContexts(place) :
       /\ Names(s, ProjectForCall(git))
       /\ Wanders(place, git)
  /\ UNCHANGED <<caller, acting, named, boot, pinning>>

\* Acquiring compares names: the session's own bot of another name is refused
\* as any other is.
Renamed(c) == At(c, "acquire") /\ bound = call[c].sid /\ acting # called[call[c].entry]

DiesOfItsOwn(c) ==
  /\ phase = "ephemeral" /\ Renamed(c) /\ Dies(c)
  /\ UNCHANGED <<naming, boot, pinning>>

CallGoesOn(c) ==
  /\ phase = "ephemeral" /\ ~Renamed(c) /\ Advance(c)
  /\ Names(call[c].sid, caller[c])
  /\ LET acquired == {e \in Entries : status[e] = "pending" /\ status'[e] = "acquired"} IN
     /\ acting' = IF bound' = NoSession THEN <<>>
                  ELSE IF acquired = {} THEN acting
                  ELSE called[CHOOSE e \in acquired : TRUE]
     /\ named' = named \cup {<<owner[e], called[e]>> : e \in acquired}
  /\ UNCHANGED <<caller, settled, boot, pinning>>

-----------------------------------------------------------------------------
(* A pinned seat                                                             *)

Defaults ==
  IF Config.project = None THEN <<>>
  ELSE <<[kind |-> "new-topics-in-channel", channel |-> Config.project.v, thread |-> <<>>],
         [kind |-> "thread", channel |-> Config.project.v, thread |-> <<"general">>]>>

SignsIn(origin) ==
  /\ pinned' = [exists |-> TRUE, origin |-> origin]
  /\ phase' = "defaults" /\ todo' = Defaults
  /\ UNCHANGED <<vars, naming, env, home, held, applied, left>>

SignInFinds == phase = "signing" /\ pinned.exists /\ SignsIn("existing")

\* Only a seat without a key of its own mints.
SignInMints ==
  /\ phase = "signing" /\ ~pinned.exists /\ Config.key = None
  /\ SignsIn("minted")

\* The realm has minted, and the answer is lost: sign-in is tried again.
MintIsLost ==
  /\ phase = "signing" /\ ~pinned.exists /\ Config.key = None
  /\ pinned' = [pinned EXCEPT !.exists = TRUE]
  /\ UNCHANGED <<vars, naming, boot, todo, held, applied, left>>

\* A rejection ends the server, as does a COMMY_SUBSCRIBE that cannot be held.
BootFails ==
  /\ \/ phase = "signing"
     \/ phase = "seeding" /\ todo # <<>>
  /\ phase' = "refused"
  /\ UNCHANGED <<vars, naming, env, home, pinning>>

Holds(intent) == held' = held \cup {intent.channel}

RegistersDefault ==
  /\ phase = "defaults" /\ todo # <<>>
  /\ Holds(Head(todo)) /\ todo' = Tail(todo)
  /\ UNCHANGED <<vars, naming, boot, pinned, applied, left>>

\* The first that fails is logged, and the others are not tried.
DefaultsFail ==
  /\ phase = "defaults" /\ todo # <<>> /\ todo' = <<>>
  /\ UNCHANGED <<vars, naming, boot, pinned, held, applied, left>>

\* Mistaken variant: every sign-in seeds.
SeedOnMint_Always ==
  /\ phase = "defaults" /\ todo = <<>>
  /\ IF Config.subscribe = None
       THEN phase' = "signed" /\ UNCHANGED todo
       ELSE phase' = "seeding" /\ todo' = Config.subscribe.v
  /\ UNCHANGED <<vars, naming, env, home, pinned, held, applied, left>>

\* A bot that was there already owns its subscriptions.
SeedOnMint ==
  /\ phase = "defaults" /\ todo = <<>>
  /\ IF Config.subscribe = None \/ pinned.origin = "existing"
       THEN phase' = "signed" /\ UNCHANGED todo
       ELSE phase' = "seeding" /\ todo' = Config.subscribe.v
  /\ UNCHANGED <<vars, naming, env, home, pinned, held, applied, left>>

Trim(token) ==
  LET text == {i \in DOMAIN token : token[i] # " "} IN
  IF text = {} THEN <<>>
  ELSE SubSeq(token, CHOOSE i \in text : \A j \in text : i <= j,
                     CHOOSE i \in text : \A j \in text : j <= i)

SubscribeFromEnv ==
  /\ phase = "seeding"
  /\ IF todo = <<>>
       THEN phase' = "signed" /\ UNCHANGED <<todo, held, applied>>
       ELSE LET intent == ParseSubscribeTarget(Trim(Head(todo))) IN
            /\ intent # Bad /\ Holds(intent.v)
            /\ applied' = Append(applied, intent.v)
            /\ todo' = Tail(todo) /\ UNCHANGED phase
  /\ UNCHANGED <<vars, naming, env, home, pinned, left>>

\* The agent's own doing, by the tools.
AgentUnsubscribes(channel) ==
  /\ phase = "signed" /\ channel \in held
  /\ held' = held \ {channel} /\ left' = left \cup {channel}
  /\ UNCHANGED <<vars, naming, boot, pinned, todo, applied>>

AgentSubscribes(channel) ==
  /\ phase = "signed" /\ channel \in left
  /\ held' = held \cup {channel} /\ left' = left \ {channel}
  /\ UNCHANGED <<vars, naming, boot, pinned, todo, applied>>

-----------------------------------------------------------------------------
BootNext ==
  \/ \E e \in Envs, place \in Places : Launch(e, place)
  \/ Exit
  \/ \E c \in Calls, s \in Sessions, place \in Places : CallStarts(c, s, place)
  \/ \E s \in Sessions, place \in Places : LooksUp(s, place)
  \/ \E c \in Calls : CallGoesOn(c) \/ DiesOfItsOwn(c)
  \/ SignInFinds \/ SignInMints \/ MintIsLost \/ BootFails
  \/ RegistersDefault \/ DefaultsFail \/ SeedOnMint \/ SubscribeFromEnv
  \/ \E channel \in held \cup left : AgentUnsubscribes(channel) \/ AgentSubscribes(channel)

BootSpec == BootInit /\ [][BootNext]_bootVars

-----------------------------------------------------------------------------
(* Properties *)

\* A host that writes every plugin key and was given none changes nothing: an
\* unsupplied field never overrides what the operator set under the bare key.
PluginChangesNothing ==
  (\A k \in DOMAIN env.plugin : env.plugin[k].is \in {"empty", "unset"})
    => Config = ParseEnv([env EXCEPT !.plugin = [k \in DOMAIN env.plugin |-> [is |-> "absent"]]])

\* A seat that starts read no placeholder the host failed to expand, nor passed
\* over one in the key that was to decide.
Decides(k) == IF env.plugin[k].is \in {"absent", "empty", "unset"} THEN env.own[k] ELSE env.plugin[k]
NothingIsMasked ==
  phase \notin {"down", "refused"} =>
    /\ \A k \in DOMAIN env.plugin : Decides(k).is # "broken"
    /\ \A raw \in {env.name, env.key, env.project, env.dir} : raw.is \in {"absent", "text"}

\* A session keeps one bot for as long as its process lives, wherever its
\* shell goes and however often git fails: when the process was launched in a
\* checkout it could read, and the calls come from there or from no project.
WanderingKeepsTheBot ==
  settled => \A a, b \in named : a[1] = b[1] => a[2] = b[2]

\* Whatever the project is called, the bot's name is one a realm takes.
NamesAreUsable ==
  \A n \in named : LET project == n[2][1] IN
    project # <<>> => /\ Len(project) <= NamePart
                      /\ project[1] \in {"a", "b"} /\ Last(project) # "-"

\* What an agent has unsubscribed from stays so over restarts, whatever
\* COMMY_SUBSCRIBE says; only the project's defaults come back.
BotOwnsItsSubscriptions ==
  left \cap held \subseteq {SanitiseProjectSlug(e.project.v) : e \in {f \in Envs : f.project.is = "text"}}

\* The set boot reports as applied reads, token by token, as it was configured.
AppliedReadsBack ==
  phase = "signed" /\ pinned.origin = "minted" /\ Config.subscribe # None =>
    [i \in DOMAIN applied |-> IntentToToken(applied[i])]
      = [i \in DOMAIN Config.subscribe.v |-> Trim(Config.subscribe.v[i])]
=============================================================================
