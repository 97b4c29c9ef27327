----------------------------- MODULE Assistant -----------------------------
(***************************************************************************)
(* The assistant's two stores: the cached schema that its prompts are      *)
(* built from, and the chat.  They share nothing, so that a behaviour      *)
(* exercises one of them, the focus, and leaves the other as it starts.    *)
(***************************************************************************)
EXTENDS Freshness, AiChat

VARIABLE focus

AssistantInit == focus \in {"schema", "chat"} /\ Init /\ ChatInit

AssistantNext ==
  \/ focus = "schema" /\ Next /\ UNCHANGED <<focus, chatVars>>
  \/ focus = "chat" /\ ChatNext /\ UNCHANGED <<focus, vars>>

AssistantSpec == AssistantInit /\ [][AssistantNext]_<<focus, vars, chatVars>>
=============================================================================
