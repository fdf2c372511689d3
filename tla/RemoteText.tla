----------------------------- MODULE RemoteText -----------------------------
(* One remote text server of the daemon, from its bind to its end: the      *)
(* protocol core of remote.rs and the sockets, timers and shutdown of       *)
(* remote/server.rs.  A browser types into the one text buffer, a Realtime  *)
(* client is sent what is committed.                                        *)
(*                                                                          *)
(* A step is one critical section of the connections mutex, or one thing    *)
(* that happens to a socket outside it.  A text is what is known of where   *)
(* it came from; messages other than output status and final results are    *)
(* left out.  The debounce generation only grows; what counts is that it is *)
(* none of a pending timer, so numbers are used again.                      *)
EXTENDS Naturals, FiniteSets

CONSTANTS Inputs, Outputs,   \* sockets of browsers and of Realtime clients
          NoClient,
          MaxTimers          \* bound: debounce timers pending at a time

ASSUME RemoteConstants ==
  /\ NoClient \notin Inputs \cup Outputs
  /\ Inputs \cap Outputs = {}
  /\ MaxTimers \in Nat \ {0}

Clients     == Inputs \cup Outputs
Generations == 0 .. MaxTimers

VARIABLES
  server,      \* the HTTP server: up, closing (told to stop), down (joined)
  stopping,    \* the value of the client_shutdown watch channel
  socket,      \* how far the handler of each socket is
  input,       \* the clients that own the protocol
  output,
  told,        \* the output status each browser was last sent
  text,        \* current_text
  generation,  \* debounce_generation
  timers       \* the debounce tasks, by their generation

protocolVars == <<input, output, told, text>>
timerVars    == <<generation, timers>>
remoteVars   == <<server, stopping, socket, protocolVars, timerVars>>

(* A text: the browser that sent it, while it is connected, the output that *)
(* was connected then, and the timer scheduled for it.                      *)
NoText == [by |-> NoClient, to |-> NoClient, due |-> 0, empty |-> TRUE]

-----------------------------------------------------------------------------
(* dispatch of the debounce action, final_result_effects.                   *)

Fresh == CHOOSE g \in Generations : g \notin timers

Schedule ==
  /\ generation' = Fresh
  /\ timers' = timers \cup {Fresh}

Cancel == generation' = Fresh

(* A text is sent and taken out, unless there is none or nobody to take it. *)
FinalResult == text' = IF output = NoClient THEN text ELSE NoText

-----------------------------------------------------------------------------
(* Sockets.  The receiver of the shutdown channel lives from Subscribe to   *)
(* the end of the handler; one that was created earlier sees every change.  *)

Listening == {c \in Clients : socket[c] \in {"subscribed", "open", "leaving", "draining"}}
SocketIs(c, stage) == socket' = [socket EXCEPT ![c] = stage]

Connect(c) ==
  /\ server = "up" /\ socket[c] = "none"
  /\ SocketIs(c, "requested")
  /\ UNCHANGED <<server, stopping, protocolVars, timerVars>>

(* The upgrade request is answered, also while the server drains; a         *)
(* Realtime client without its key, or a broken request, is refused.        *)
Upgrade(c) ==
  /\ socket[c] = "requested"
  /\ \E stage \in {"upgraded", "none"} : SocketIs(c, stage)
  /\ UNCHANGED <<server, stopping, protocolVars, timerVars>>

(* The handler task runs at last: subscribe, then look at the value.        *)
Subscribe(c) ==
  /\ socket[c] = "upgraded"
  /\ SocketIs(c, IF stopping THEN "none" ELSE "subscribed")
  /\ UNCHANGED <<server, stopping, protocolVars, timerVars>>

(* No authentication message, a broken one, a wrong key, a shutdown, or the *)
(* place is taken.                                                          *)
Refuse(c) ==
  /\ socket[c] = "subscribed"
  /\ c \in Inputs \/ output # NoClient
  /\ SocketIs(c, "draining")
  /\ UNCHANGED <<server, stopping, protocolVars, timerVars>>

(* Mutant: init always says there is no output.                             *)
ClaimInput_Disconnected(c) ==
  /\ socket[c] = "subscribed" /\ input = NoClient
  /\ SocketIs(c, "open")
  /\ input' = c
  /\ told' = [told EXCEPT ![c] = FALSE]
  /\ UNCHANGED <<server, stopping, output, text, timerVars>>

(* connect_input: auth_ok and init.                                         *)
ClaimInput(c) ==
  /\ socket[c] = "subscribed" /\ input = NoClient
  /\ SocketIs(c, "open")
  /\ input' = c
  /\ told' = [told EXCEPT ![c] = output # NoClient]
  /\ UNCHANGED <<server, stopping, output, text, timerVars>>

TellInput(connected) ==
  told' = IF input = NoClient THEN told ELSE [told EXCEPT ![input] = connected]

ClaimOutput(c) ==
  /\ socket[c] = "subscribed" /\ output = NoClient
  /\ SocketIs(c, "open")
  /\ output' = c
  /\ TellInput(TRUE)
  /\ UNCHANGED <<server, stopping, input, text, timerVars>>

(* The stream ends, or the shutdown is seen.                                *)
LeaveLoop(c, shutdown) ==
  /\ socket[c] = "open" /\ (shutdown => stopping)
  /\ SocketIs(c, "leaving")
  /\ UNCHANGED <<server, stopping, protocolVars, timerVars>>

(* disconnect_input: the text stays, nobody is waiting for it any more.     *)
DisconnectInput(c) ==
  /\ socket[c] = "leaving" /\ input = c
  /\ SocketIs(c, "draining")
  /\ input' = NoClient
  /\ told' = [told EXCEPT ![c] = FALSE]
  /\ text' = [text EXCEPT !.by = NoClient]
  /\ Cancel
  /\ UNCHANGED <<server, stopping, output, timers>>

(* Mutant: the text outlives the output it was typed for.                   *)
DisconnectOutput_KeepsText(c) ==
  /\ socket[c] = "leaving" /\ output = c
  /\ SocketIs(c, "draining")
  /\ output' = NoClient
  /\ TellInput(FALSE)
  /\ Cancel
  /\ UNCHANGED <<server, stopping, input, text, timers>>

DisconnectOutput(c) ==
  /\ socket[c] = "leaving" /\ output = c
  /\ SocketIs(c, "draining")
  /\ output' = NoClient
  /\ text' = NoText
  /\ TellInput(FALSE)
  /\ Cancel
  /\ UNCHANGED <<server, stopping, input, timers>>

(* The writer has sent what was queued, or given up.                        *)
Drained(c) ==
  /\ socket[c] = "draining"
  /\ SocketIs(c, "none")
  /\ UNCHANGED <<server, stopping, protocolVars, timerVars>>

-----------------------------------------------------------------------------
(* Messages and timers.                                                     *)

(* The editor may be empty again.                                           *)
TextUpdate(c, empty) ==
  /\ socket[c] = "open" /\ c \in Inputs
  /\ Cardinality(timers) < MaxTimers
  /\ Schedule
  /\ text' = IF empty THEN NoText
             ELSE [by |-> c, to |-> output, due |-> generation', empty |-> FALSE]
  /\ UNCHANGED <<server, stopping, socket, input, output, told>>

Finalize(c) ==
  /\ socket[c] = "open" /\ c \in Inputs
  /\ FinalResult
  /\ Cancel
  /\ UNCHANGED <<server, stopping, socket, input, output, told, timers>>

(* input_audio_buffer.commit; an empty one only gets its answer.            *)
Commit(c) ==
  /\ socket[c] = "open" /\ c \in Outputs
  /\ ~text.empty
  /\ FinalResult
  /\ Cancel
  /\ UNCHANGED <<server, stopping, socket, input, output, told, timers>>

(* Mutant: a timer finalizes whatever happened since it was scheduled.      *)
FireDebounce_Unchecked(g) ==
  /\ g \in timers
  /\ timers' = timers \ {g}
  /\ Cancel /\ FinalResult
  /\ UNCHANGED <<server, stopping, socket, input, output, told>>

FireDebounce(g) ==
  /\ g \in timers
  /\ timers' = timers \ {g}
  /\ IF generation = g THEN Cancel /\ FinalResult ELSE UNCHANGED <<generation, text>>
  /\ UNCHANGED <<server, stopping, socket, input, output, told>>

EndDebounce(g) ==
  /\ stopping /\ g \in timers
  /\ timers' = timers \ {g}
  /\ UNCHANGED <<server, stopping, socket, protocolVars, generation>>

-----------------------------------------------------------------------------
(* RemoteTextServer::shutdown, awaiting the HTTP server, and drop.  A value *)
(* sent to a watch channel without receivers is not kept.                   *)

SendShutdown == stopping' = (stopping \/ Listening # {} \/ timers # {})

Shutdown ==
  /\ server = "up"
  /\ server' = "closing"
  /\ SendShutdown
  /\ UNCHANGED <<socket, protocolVars, timerVars>>

Join ==
  /\ server = "closing"
  /\ \A c \in Clients : socket[c] # "requested"
  /\ server' = "down"
  /\ SendShutdown
  /\ UNCHANGED <<socket, protocolVars, timerVars>>

-----------------------------------------------------------------------------
RemoteInit ==
  /\ server = "up" /\ stopping = FALSE
  /\ socket = [c \in Clients |-> "none"]
  /\ input = NoClient /\ output = NoClient
  /\ told = [c \in Inputs |-> FALSE]
  /\ text = NoText
  /\ generation = 0 /\ timers = {}

(* What a handler does by itself once it is told to stop.                   *)
HandlerStops(c) ==
  \/ Upgrade(c) \/ Subscribe(c)
  \/ stopping /\ Refuse(c)
  \/ LeaveLoop(c, TRUE)

Leave(c) == DisconnectInput(c) \/ DisconnectOutput(c)
Claim(c) == (c \in Inputs /\ ClaimInput(c)) \/ (c \in Outputs /\ ClaimOutput(c))

Socket(c) ==
  \/ Connect(c) \/ Upgrade(c) \/ Subscribe(c) \/ Refuse(c) \/ Claim(c)
  \/ \E shutdown \in BOOLEAN : LeaveLoop(c, shutdown)
  \/ Leave(c) \/ Drained(c)
  \/ \E empty \in BOOLEAN : TextUpdate(c, empty)
  \/ Finalize(c) \/ Commit(c)

Timer(g) == FireDebounce(g) \/ EndDebounce(g)

RemoteNext ==
  \/ \E c \in Clients : Socket(c)
  \/ \E g \in Generations : Timer(g)
  \/ Shutdown \/ Join

(* Woken tasks are polled: a timer fires, a handler that has something to   *)
(* do about its end does it.  Nobody has to type, connect or answer.        *)
Fairness ==
  /\ \A g \in Generations : WF_remoteVars(Timer(g))
  /\ \A c \in Clients : /\ WF_remoteVars(HandlerStops(c))
                        /\ WF_remoteVars(Claim(c))
                        /\ WF_remoteVars(Leave(c))

RemoteSpec == RemoteInit /\ [][RemoteNext]_remoteVars /\ Fairness

-----------------------------------------------------------------------------
(* Properties.                                                              *)

RemoteTypeOK ==
  /\ server \in {"up", "closing", "down"} /\ stopping \in BOOLEAN
  /\ socket \in [Clients -> {"none", "requested", "upgraded", "subscribed", "open",
                             "leaving", "draining"}]
  /\ input \in Inputs \cup {NoClient} /\ output \in Outputs \cup {NoClient}
  /\ told \in [Inputs -> BOOLEAN]
  /\ text \in [by : Inputs \cup {NoClient}, to : Outputs \cup {NoClient},
               due : Generations, empty : BOOLEAN]
  /\ generation \in Generations /\ timers \subseteq Generations

(* The protocol belongs to the sockets that are served, one of each kind,   *)
(* and the browser has been told whether there is an output: what it lets   *)
(* the user type depends on that alone.                                     *)
ClientsSeeEachOther ==
  /\ RemoteTypeOK
  /\ \A c \in Clients : socket[c] \in {"open", "leaving"} <=> c \in {input, output}
  /\ input # NoClient => told[input] = (output # NoClient)

(* Text is never sent to another output than the one it was typed for, if   *)
(* there was one.  A timer that would still act is the one of the text that *)
(* is there, from the browser that is there; and a text between two clients *)
(* that are both there has a timer that will send it.                       *)
BufferedTextIsTimed ==
  /\ ~text.empty => text.to \in {output, NoClient}
  /\ generation \in timers /\ ~text.empty => text.by # NoClient /\ text.due = generation
  /\ ~text.empty /\ text.by # NoClient /\ text.to # NoClient /\ ~stopping =>
       text.due = generation /\ generation \in timers

(* A timer sends the text it was scheduled for and no newer one, and not on *)
(* behalf of a browser that has gone.                                       *)
TimersSendTheirText ==
  [][\A g \in timers \ timers' :
       ~text.empty /\ text'.empty => text.due = g /\ text.by # NoClient]_remoteVars

(* A text between two clients is sent, replaced, or given up with one of    *)
(* them or with the server.                                                 *)
TextIsDelivered ==
  \A g \in Generations :
    ~text.empty /\ text.due = g /\ text.to # NoClient ~>
      text.empty \/ text.due # g \/ text.by = NoClient \/ stopping

(* Clients leave a server that could tell them to, those included that were *)
(* still connecting when it did.                                            *)
StoppedServerIsLeft ==
  stopping ~> /\ input = NoClient /\ output = NoClient /\ timers = {}
              /\ \A c \in Clients : socket[c] \in {"none", "draining"}

(* What the browser types reaches the output once and in time, or its       *)
(* server comes to its end.                                                 *)
RemoteDelivery == TimersSendTheirText /\ TextIsDelivered /\ StoppedServerIsLeft
=============================================================================
