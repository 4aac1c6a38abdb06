------------------------------- MODULE Player -------------------------------
(***************************************************************************)
(* The mobile player: the store (playerStore), the engine abstraction      *)
(* (trackPlayerService) and the native player they drive.                  *)
(*                                                                         *)
(* playTrack is a chain of awaits: the engine is set up, an offline copy   *)
(* looked for, a preview and then a download URL asked for, and the track  *)
(* given to the native player in three calls.  Nothing numbers these       *)
(* chains: the continuation of an older one writes the same store and the  *)
(* same native queue as a newer one.  The native player reports its states *)
(* in events of its own, delivered in order and at any later time, and the *)
(* notification controls reach it without passing through the store.       *)
(***************************************************************************)
EXTENDS Naturals, Sequences, FiniteSets

CONSTANTS
  PlayerTracks,  \* the tracks the user may ask for
  NoCurrent,       \* current when it is null
  MaxCalls,      \* bound: calls of the store in a behaviour
  MaxPending     \* bound: native states not delivered yet when a control is used

ASSUME PlayerAssumption ==
  NoCurrent \notin PlayerTracks /\ MaxCalls \in Nat /\ MaxPending \in Nat

Call == 1..MaxCalls

VARIABLES
  player,  \* the store, and the engine's flags and last status
  native,  \* react-native-track-player
  states,  \* its PlaybackState events on their way
  call,    \* what each call of the store awaits
  upset    \* why what is shown may differ from what plays, since the last
           \* playTrack that began with nothing else under way

playerVars == <<player, native, states, call, upset>>

Steps == {"setup", "options", "lookup", "preview", "download",
          "reset", "add", "start", "report", "control", "clear"}

PlayerTypeOK ==
  /\ player \in [current : PlayerTracks \cup {NoCurrent}, isPlaying : BOOLEAN,
                 isBuffering : BOOLEAN, error : BOOLEAN, subscribed : BOOLEAN,
                 status : {"idle", "loading", "playing", "paused", "stopped"},
                 useNative : BOOLEAN, nativeReady : BOOLEAN]
  /\ native \in [linked : BOOLEAN, up : BOOLEAN, queue : Seq(PlayerTracks),
                 playing : BOOLEAN]
  /\ native.playing => native.queue # <<>>
  /\ states \in Seq({"none", "buffering", "playing", "paused", "stopped", "ended"})
  /\ call \in [Call -> [pc : {"new", "done"} \cup Steps, track : PlayerTracks \cup {NoCurrent},
                        op : {"none", "init", "play", "pause", "resume", "stop"},
                        setUp : BOOLEAN]]
  /\ upset \subseteq {"overlap", "swallowed", "ended"}

NewCall == [pc |-> "new", op |-> "none", track |-> NoCurrent, setUp |-> FALSE]

PlayerInit ==
  /\ player = [current |-> NoCurrent, isPlaying |-> FALSE, isBuffering |-> FALSE,
               error |-> FALSE, subscribed |-> FALSE, status |-> "idle",
               useNative |-> FALSE, nativeReady |-> FALSE]
  /\ native \in [linked : BOOLEAN, up : {FALSE}, queue : {<<>>}, playing : {FALSE}]
  /\ states = <<>>
  /\ call = [c \in Call |-> NewCall]
  /\ upset = {}

UnderWay == {c \in Call : call[c].pc \in Steps}

-----------------------------------------------------------------------------
(* The engine's listener and the native player.                            *)

\* emit: the store follows once it has subscribed.
Emit(p, s) ==
  IF p.subscribed
  THEN [p EXCEPT !.status = s, !.isPlaying = (s = "playing"), !.isBuffering = (s = "loading")]
  ELSE [p EXCEPT !.status = s]

\* The status a native state is translated to; "ended" is not handled.
StatusOf(s) ==
  CASE s \in {"none", "stopped"} -> "stopped"
    [] s = "buffering" -> "loading"
    [] OTHER -> s

\* A PlaybackState event arrives.
Deliver ==
  /\ states # <<>>
  /\ states' = Tail(states)
  /\ player' = IF Head(states) = "ended" THEN player
               ELSE Emit(player, StatusOf(Head(states)))
  /\ UNCHANGED <<native, call, upset>>

\* A progress event, or a seek, emits the last status again.
Reemit ==
  /\ native.playing
  /\ player' = Emit(player, player.status)
  /\ UNCHANGED <<native, states, call, upset>>

\* What the native player does when it is called, and the states it reports.
NativeReset ==
  /\ native' = [native EXCEPT !.queue = <<>>, !.playing = FALSE]
  /\ states' = Append(states, "none")

NativeAdd(t) == native' = [native EXCEPT !.queue = Append(@, t)] /\ UNCHANGED states

NativePlay ==
  /\ native' = [native EXCEPT !.playing = (native.queue # <<>>)]
  /\ states' = IF native.queue = <<>> THEN states ELSE states \o <<"buffering", "playing">>

NativeHalt(s) == native' = [native EXCEPT !.playing = FALSE] /\ states' = Append(states, s)

\* playbackService: the notification's buttons act on the native player alone.
\* A track that plays to its end stops without any of them.
RemotePlay == native.queue # <<>> /\ ~native.playing /\ NativePlay
RemoteHalt == native.playing /\ \E s \in {"paused", "stopped", "ended"} : NativeHalt(s)

Remote ==
  /\ native.up /\ Len(states) < MaxPending
  /\ RemotePlay \/ RemoteHalt
  /\ upset' = upset \cup (IF UnderWay # {} THEN {"overlap"} ELSE {})
                    \cup (IF states' # states /\ states'[Len(states')] = "ended"
                          THEN {"ended"} ELSE {})
  /\ UNCHANGED <<player, call>>

-----------------------------------------------------------------------------
(* initEngine and tryLoadNative.                                           *)

\* Call c goes on at step pc, with p the store.
Goes(c, pc, p) ==
  /\ call' = [call EXCEPT ![c] = IF pc = "done" THEN [NewCall EXCEPT !.pc = pc, !.setUp = call[c].setUp]
                                 ELSE [@ EXCEPT !.pc = pc]]
  /\ player' = p

\* initEngine is over: the store subscribes once, and playTrack goes on.
Inited(c, p) ==
  Goes(c, IF call[c].op = "init" THEN "done" ELSE "lookup", [p EXCEPT !.subscribed = TRUE])

Loaded(p, ok) == [p EXCEPT !.useNative = ok, !.nativeReady = TRUE]

\* setupPlayer resolves, or rejects: always when the player is already up.
SetUp(c) ==
  /\ call[c].pc = "setup"
  /\ \/ /\ ~native.up
        /\ native' = [native EXCEPT !.up = TRUE]
        /\ Goes(c, "options", player)
     \/ Inited(c, Loaded(player, FALSE)) /\ UNCHANGED native
  /\ UNCHANGED <<states, upset>>

\* updateOptions resolves or rejects; the flags go to whoever comes last.
UpdateOptions(c) ==
  /\ call[c].pc = "options"
  /\ \E ok \in BOOLEAN : Inited(c, Loaded(player, ok))
  /\ UNCHANGED <<native, states, upset>>

\* The next call of the store begins; the first is the initEngine of App.
Begins(c, op, t, pc, p) ==
  /\ call[c].pc = "new" /\ (c = 1) = (op = "init") /\ \A d \in Call : d < c => call[d].pc # "new"
  /\ call' = [call EXCEPT ![c] = [pc |-> pc, op |-> op, track |-> t, setUp |-> pc = "setup"]]
  /\ player' = p
  /\ upset' = IF UnderWay # {} THEN upset \cup {"overlap"}
              ELSE IF op = "play" THEN {} ELSE upset
  /\ UNCHANGED <<native, states>>

\* initEngine alone (App) or as the first step of playTrack: a call that finds
\* the flag nativeReady unset calls setupPlayer itself.
InitEngine(c, op, t, p) ==
  LET after == IF op = "init" THEN "done" ELSE "lookup"
  IN  IF player.nativeReady THEN Begins(c, op, t, after, [p EXCEPT !.subscribed = TRUE])
      ELSE IF native.linked THEN Begins(c, op, t, "setup", p)
      ELSE Begins(c, op, t, after, [Loaded(p, FALSE) EXCEPT !.subscribed = TRUE])

Start(c) == InitEngine(c, "init", NoCurrent, player)

PlayTrack(c, t) ==
  InitEngine(c, "play", t, [player EXCEPT !.isBuffering = TRUE, !.error = FALSE])

-----------------------------------------------------------------------------
(* The rest of playTrack.                                                  *)

\* catch: whatever plays by now, the store shows an error and no playing.
Catch(c) ==
  Goes(c, "done", [player EXCEPT !.isBuffering = FALSE, !.isPlaying = FALSE, !.error = TRUE])

\* Mutant: the store is left alone when a call fails.
EnginePlay_NotShown(c) ==
  LET p == Emit(player, "loading")
  IN  Goes(c, IF p.useNative THEN "reset" ELSE "report",
           IF p.useNative THEN p ELSE Emit(p, "playing"))

\* The track becomes current, and enginePlay begins: the native queue is about
\* to be reset, or the JS engine plays at once.
EnginePlay(c) ==
  LET p == Emit([player EXCEPT !.current = call[c].track, !.isPlaying = TRUE,
                               !.isBuffering = FALSE], "loading")
  IN  Goes(c, IF p.useNative THEN "reset" ELSE "report",
           IF p.useNative THEN p ELSE Emit(p, "playing"))

\* getOfflineTrack, the preview and the download: each may have what is needed
\* or not, and only a failure of the preview is survived.
Lookup(c) ==
  /\ call[c].pc = "lookup"
  /\ EnginePlay(c) \/ Goes(c, "preview", player) \/ Catch(c)
  /\ UNCHANGED <<native, states, upset>>

Preview(c) ==
  /\ call[c].pc = "preview"
  /\ EnginePlay(c) \/ Goes(c, "download", player)
  /\ UNCHANGED <<native, states, upset>>

Download(c) ==
  /\ call[c].pc = "download"
  /\ EnginePlay(c) \/ Catch(c)
  /\ UNCHANGED <<native, states, upset>>

\* The three native calls, each answered before the next is made.
Reset(c) ==
  /\ call[c].pc = "reset"
  /\ NativeReset /\ Goes(c, "add", player)
  /\ UNCHANGED upset

Add(c) ==
  /\ call[c].pc = "add"
  /\ NativeAdd(call[c].track) /\ Goes(c, "start", player)
  /\ UNCHANGED upset

Play(c) ==
  /\ call[c].pc = "start"
  /\ NativePlay /\ Goes(c, "report", Emit(player, "playing"))
  /\ UNCHANGED upset

\* trackEvent("play_start") ends playTrack.
Report(c) ==
  /\ call[c].pc = "report" /\ Goes(c, "done", player)
  /\ UNCHANGED <<native, states, upset>>

\* A native call or the report rejects.
Rejected(c) ==
  /\ call[c].pc \in {"reset", "add", "start", "report"} /\ Catch(c)
  /\ UNCHANGED <<native, states, upset>>

-----------------------------------------------------------------------------
(* togglePlay, stop: the store first, the native player after.             *)

Pause(c) ==
  /\ player.current # NoCurrent /\ player.isPlaying
  /\ Begins(c, "pause", NoCurrent, "control", [player EXCEPT !.isPlaying = FALSE])

Resume(c) ==
  /\ player.current # NoCurrent /\ ~player.isPlaying
  /\ Begins(c, "resume", NoCurrent, "control", [player EXCEPT !.isPlaying = TRUE])

\* The mini player shows its button while there is a track or an error.
Stop(c) ==
  /\ player.current # NoCurrent \/ player.error
  /\ Begins(c, "stop", NoCurrent, "control", [player EXCEPT !.isPlaying = FALSE, !.current = NoCurrent])

\* enginePause, engineResume and engineStop: the native call only if the engine
\* is native, and the status in any case.
Control(c) ==
  LET op == call[c].op
      ended == [pause |-> "paused", resume |-> "playing", stop |-> "stopped"][op]
  IN  /\ call[c].pc = "control"
      /\ IF player.useNative
         THEN /\ IF op = "resume" THEN NativePlay ELSE NativeHalt(ended)
              /\ IF op = "stop" THEN Goes(c, "clear", player)
                 ELSE Goes(c, "done", Emit(player, ended))
         ELSE Goes(c, "done", Emit(player, ended)) /\ UNCHANGED <<native, states>>
      /\ UNCHANGED upset

\* The reset that ends engineStop.
Clear(c) ==
  /\ call[c].pc = "clear"
  /\ NativeReset /\ Goes(c, "done", Emit(player, "stopped"))
  /\ UNCHANGED upset

\* .catch(() => {}): nothing is emitted.
Swallowed(c) ==
  /\ call[c].pc \in {"control", "clear"} /\ player.useNative
  /\ Goes(c, "done", player)
  /\ upset' = upset \cup {"swallowed"}
  /\ UNCHANGED <<native, states>>

PlayerNext ==
  \/ Deliver \/ Reemit \/ Remote
  \/ \E c \in Call :
       \/ Start(c) \/ \E t \in PlayerTracks : PlayTrack(c, t)
       \/ Pause(c) \/ Resume(c) \/ Stop(c)
       \/ SetUp(c) \/ UpdateOptions(c) \/ Lookup(c) \/ Preview(c) \/ Download(c)
       \/ Reset(c) \/ Add(c) \/ Play(c) \/ Report(c) \/ Rejected(c)
       \/ Control(c) \/ Clear(c) \/ Swallowed(c)

PlayerSpec == PlayerInit /\ [][PlayerNext]_playerVars

-----------------------------------------------------------------------------
(* Properties.                                                             *)

Settled == UnderWay = {} /\ states = <<>>

\* Two calls found nativeReady unset: one setupPlayer may have rejected after
\* the other had made the player native.
SetUpTwice == Cardinality({c \in Call : call[c].setUp}) > 1

\* Once everything has been answered and delivered, what the store shows is
\* what plays: the track, and whether it is playing; and nothing plays behind
\* it.  It is otherwise only after a playTrack, a button or a notification
\* control met another call under way, a control's rejection was swallowed, a
\* track came to its end (Ended is not handled), an error is shown, or the
\* engine was set up twice (playTrack, and the calls it overlaps).
ShowsWhatPlays ==
  Settled /\ upset = {} /\ ~player.error /\ ~SetUpTwice =>
    /\ ~player.isBuffering
    /\ player.isPlaying => player.current # NoCurrent
    /\ player.isPlaying /\ player.useNative => native.playing
    /\ native.playing => player.isPlaying /\ native.queue = <<player.current>>
=============================================================================
