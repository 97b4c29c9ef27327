------------------------------ MODULE AiStream ------------------------------
(***************************************************************************)
(* The server's end of the assistant's answers (ai/ai.controller,          *)
(* ai.chat-completion.service, ai.provider-runner.service): an answer      *)
(* streams from the first provider of a chain that works, with retries, a  *)
(* request format to fall back from, and timeouts.  The server never       *)
(* notices that the client has gone.                                       *)
(***************************************************************************)
EXTENDS Naturals, Sequences

CONSTANTS Gens,        \* requests for an answer, numbered from 1
          Plans,       \* providers of the chain, tried from 1 to Plans
          MaxAttempts, \* OPENAI_COMPATIBLE_RETRY_ATTEMPTS
          MaxChunks    \* bound: chunks of an answer, of all providers

ASSUME StreamAssumption ==
  Gens \subseteq Nat \ {0} /\ {Plans, MaxAttempts} \subseteq Nat \ {0} /\ MaxChunks \in Nat

VARIABLES server, \* what the server does for each request
          said    \* the events written to each response so far

streamVars == <<server, said>>

Waiting == [at |-> "off", plan |-> 0, attempt |-> 0, structured |-> FALSE, emitted |-> FALSE]

StreamInit ==
  /\ server = [g \in Gens |-> Waiting]
  /\ said = [g \in Gens |-> <<>>]

At(g, places) == server[g].at \in places
Say(g, kind) == said' = [said EXCEPT ![g] = Append(@, [kind |-> kind, plan |-> server[g].plan])]
End(g) == server' = [server EXCEPT ![g].at = "ended"]

\* The request arrives, and its headers go out before anything else is known.
Open(g) == At(g, {"off"}) /\ server' = [server EXCEPT ![g].at = "context"] /\ UNCHANGED said

\* The connection is unknown or does not connect, the user's own provider is not accepted,
\* or no chain can be built: an error event.
Refuse(g) == At(g, {"context"}) /\ Say(g, "error") /\ End(g)

\* The schema context throws: the exception filter finds the headers sent and leaves the
\* response open.
ContextThrows(g) ==
  At(g, {"context"}) /\ server' = [server EXCEPT ![g].at = "hung"] /\ UNCHANGED said

Try(g, plan) ==
  /\ \E structured \in BOOLEAN :
       server' = [server EXCEPT ![g] = [at |-> "bootstrap", plan |-> plan, attempt |-> 1,
                                        structured |-> structured, emitted |-> @.emitted]]
  /\ UNCHANGED said

ContextBuilt(g) == At(g, {"context"}) /\ Try(g, 1)

\* A transient failure, or no response in time: again, after a pause.
Retry(g) ==
  /\ At(g, {"bootstrap"}) /\ server[g].attempt < MaxAttempts
  /\ server' = [server EXCEPT ![g].attempt = @ + 1]
  /\ UNCHANGED said

\* The provider does not know the schema of the response: again without, from the first attempt.
FormatRejected(g) ==
  /\ At(g, {"bootstrap"}) /\ server[g].structured
  /\ server' = [server EXCEPT ![g].structured = FALSE, ![g].attempt = 1]
  /\ UNCHANGED said

Responds(g) ==
  At(g, {"bootstrap"}) /\ server' = [server EXCEPT ![g].at = "streaming"] /\ UNCHANGED said

\* A plausible bug: nobody remembers that the client has seen a chunk.
ChunkForgotten(g) ==
  /\ At(g, {"streaming"}) /\ Len(said[g]) < MaxChunks
  /\ Say(g, "chunk")
  /\ UNCHANGED server

Chunk(g) ==
  /\ At(g, {"streaming"}) /\ Len(said[g]) < MaxChunks
  /\ Say(g, "chunk")
  /\ server' = [server EXCEPT ![g].emitted = TRUE]

Answer(g) == At(g, {"streaming"}) /\ Say(g, "done") /\ End(g)

\* A plausible bug: no timeout once the provider has begun.
PlanFailsEarly(g) ==
  /\ At(g, {"bootstrap"})
  /\ IF server[g].plan = Plans THEN Say(g, "error") /\ End(g) ELSE Try(g, server[g].plan + 1)

\* Nothing to be done with this provider: refused, out of attempts, idle or streaming for
\* too long, or an unusable answer.  The next one takes over unless the client has seen
\* some of this one's text.
PlanFails(g) ==
  /\ At(g, {"bootstrap", "streaming"})
  /\ IF server[g].emitted \/ server[g].plan = Plans
     THEN Say(g, "error") /\ End(g)
     ELSE Try(g, server[g].plan + 1)

Serve(g) ==
  \/ Refuse(g) \/ ContextThrows(g) \/ ContextBuilt(g) \/ Retry(g) \/ FormatRejected(g)
  \/ Responds(g) \/ Chunk(g) \/ Answer(g) \/ PlanFails(g)

StreamNext == \E g \in Gens : Open(g) \/ Serve(g)

\* The context is built or not, and a provider need not answer: it is the timeouts of its
\* attempts and of its chunks that drive a response on.
StreamFairness ==
  \A g \in Gens :
    /\ WF_streamVars(Refuse(g) \/ ContextThrows(g) \/ ContextBuilt(g))
    /\ WF_streamVars(Retry(g) \/ PlanFails(g))

StreamSpec == StreamInit /\ [][StreamNext]_streamVars /\ StreamFairness

-----------------------------------------------------------------------------
\* A client never hears two providers in one answer, and nothing after the event that
\* ends it: no fallback follows a partial output.
OneVoice ==
  \A g \in Gens :
    /\ \A i, j \in 1..Len(said[g]) :
         said[g][i].kind # "error" /\ said[g][j].kind # "error" =>
           said[g][i].plan = said[g][j].plan
    /\ \A i \in 1..Len(said[g]) :
         said[g][i].kind # "chunk" <=> (At(g, {"ended"}) /\ i = Len(said[g]))

\* Every response ends, whatever the providers do, unless it was left open.
ResponseEnds == \A g \in Gens : At(g, {"context"}) ~> At(g, {"ended", "hung"})
=============================================================================
