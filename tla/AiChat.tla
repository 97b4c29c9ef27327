------------------------------- MODULE AiChat -------------------------------
(***************************************************************************)
(* One chat with the assistant, in the panel and in the database           *)
(* (useAiChat.ts, aiChatSlice.ts, AiAssistant.tsx, ai.chat.service).       *)
(* Messages appear at once and are saved by requests nobody awaits; a      *)
(* message sent here keeps an id that the server has never heard of.  What *)
(* a response may bring is AiStream's: chunks, and one last event.         *)
(***************************************************************************)
EXTENDS Naturals, Sequences, FiniteSets, SequencesExt

CONSTANTS Gens,      \* answers asked for, numbered from 1
          MaxPanels, \* bound: times the panel is opened
          MaxFaults  \* bound: saves and edits that the network loses

\* None, and the chat that is there at the start, are not answers asked for.
ASSUME ChatAssumption == Gens \subseteq Nat \ {0} /\ MaxPanels \in Nat \ {0} /\ MaxFaults \in Nat

VARIABLES messages, \* what the panel shows
          rows,     \* the messages in the database, oldest first
          posts,    \* saves under way
          gen,      \* the generations in the browser
          panel,    \* the panel's instance: every opening has refs and state of its own
          hook,     \* loading, pending text and abort controller of each instance
          list,     \* the reload of the messages: shown, or emptied
          faults,
          drifted   \* ghost: messages that the panel and the database may disagree on

chatVars == <<messages, rows, posts, gen, panel, hook, list, faults, drifted>>

Panels == 1..MaxPanels
None == 0
Old == 0  \* the question and the answer that the chat starts with
Text(kind, g) == <<kind, g>>
Row(id, role, text) == [id |-> id, role |-> role, text |-> text]
Message(row, known) == [id |-> row.id, role |-> row.role, text |-> row.text, known |-> known]
Shown(m) == Row(m.id, m.role, m.text)
Load(answer) == [i \in DOMAIN answer |-> Message(answer[i], TRUE)]

OldRows == <<Row(Old, "user", Text("ask", Old)), Row(Old, "ai", Text("answer", Old))>>

ChatInit ==
  /\ rows = OldRows /\ messages = Load(rows)
  /\ posts = {} /\ drifted = {} /\ faults = 0
  /\ gen = [g \in Gens |-> [at |-> "none", in |-> 1, target |-> g]]
  /\ panel = 1
  /\ hook = [p \in Panels |-> [loading |-> FALSE, pending |-> None, controller |-> None]]
  /\ list = "shown"

Under(g) == gen[g].at \notin {"none", "over"}

\* A second generation beside one that runs, and all that a reload in between touches.
Overlap(g) == {h \in Gens \ {g} : Under(h)}
Beside(g, target) ==
  IF Overlap(g) = {} THEN {} ELSE {g, target} \cup Overlap(g) \cup {gen[h].target : h \in Overlap(g)}
\* What a reload tears from its message: a generation's text, a save.
Loose == {g \in Gens : Under(g) \/ \E p \in posts : p.id = g}

\* updateAiMessage: only the message with the id given here.
Update(g, text) ==
  messages' = [i \in DOMAIN messages |->
    IF messages[i].id = g /\ messages[i].role = "ai" /\ ~messages[i].known
    THEN [messages[i] EXCEPT !.text = text] ELSE messages[i]]
Content(g) ==
  {messages[i].text : i \in {j \in DOMAIN messages :
     messages[j].id = g /\ messages[j].role = "ai" /\ ~messages[j].known}}

\* triggerGenerate up to its request.
Generate(g, before) ==
  /\ messages' = Append(before, Message(Row(g, "ai", Text("empty", g)), FALSE))
  /\ hook' = [hook EXCEPT ![gen'[g].in].loading = TRUE, ![gen'[g].in].controller = g]

Send(g) ==
  /\ gen[g].at = "none" /\ ~hook[panel].loading
  /\ \A h \in Gens : h < g => gen[h].at # "none"
  /\ gen' = [gen EXCEPT ![g].at = "reading", ![g].in = panel]
  /\ LET question == Row(g, "user", Text("ask", g))
     IN  posts' = posts \cup {question} /\ Generate(g, Append(messages, Message(question, FALSE)))
  /\ drifted' = drifted \cup Beside(g, g)
  /\ UNCHANGED <<rows, panel, list, faults>>

\* An edited question, or one asked again: isLoading is looked at now and set later.
Edit(g) ==
  /\ gen[g].at = "none" /\ ~hook[panel].loading
  /\ \A h \in Gens : h < g => gen[h].at # "none"
  /\ \E i \in DOMAIN messages :
       /\ messages[i].role = "user"
       /\ gen' = [gen EXCEPT ![g].at = IF messages[i].known THEN "deleting" ELSE "refused",
                             ![g].in = panel, ![g].target = messages[i].id]
       /\ drifted' = drifted \cup Beside(g, messages[i].id)
  /\ UNCHANGED <<messages, rows, posts, panel, hook, list, faults>>

PlaceOf(s, id) == SelectInSeq(s, LAMBDA m : m.id = id /\ m.role = "user")
Behind(s, id) == {s[i].id : i \in (PlaceOf(s, id) + 1)..Len(s)}

\* deleteMessagesAfter, on the server: saves still under way are not there yet.
DeleteAfter(g) ==
  /\ gen[g].at = "deleting" /\ PlaceOf(rows, gen[g].target) > 0
  /\ rows' = SubSeq(rows, 1, PlaceOf(rows, gen[g].target))
  /\ gen' = [gen EXCEPT ![g].at = "updating"]
  /\ drifted' = drifted \cup {p.id : p \in posts}
  /\ UNCHANGED <<messages, posts, panel, hook, list, faults>>

\* updateMessage and then the panel's own copy.
EditDone(g) ==
  /\ gen[g].at = "updating" /\ PlaceOf(rows, gen[g].target) > 0
  /\ LET text == Text("ask", g)
         here == PlaceOf(messages, gen[g].target)
         cut == IF here = 0 THEN messages
                ELSE [SubSeq(messages, 1, here) EXCEPT ![here].text = text]
     IN  /\ rows' = [rows EXCEPT ![PlaceOf(rows, gen[g].target)].text = text]
         /\ gen' = [gen EXCEPT ![g].at = "reading"]
         /\ Generate(g, cut)
  /\ UNCHANGED <<drifted, posts, panel, list, faults>>

\* The edit is given up, unknown to the server or half done, and the answer asked for anyway.
EditFails(g) ==
  /\ \/ gen[g].at = "refused" /\ UNCHANGED <<faults, drifted>>
     \/ /\ gen[g].at \in {"deleting", "updating"}
        /\ IF PlaceOf(rows, gen[g].target) = 0 THEN UNCHANGED faults
           ELSE faults < MaxFaults /\ faults' = faults + 1
        /\ drifted' = drifted \cup Behind(messages, gen[g].target)
  /\ gen' = [gen EXCEPT ![g].at = "reading"]
  /\ Generate(g, messages)
  /\ UNCHANGED <<rows, posts, panel, list>>

\* finally: whatever is in the refs of this instance goes, another generation's included.
Over(g) ==
  /\ gen' = [gen EXCEPT ![g] = [at |-> "over", in |-> 1, target |-> g]]
  /\ hook' = [hook EXCEPT ![gen[g].in] = [loading |-> FALSE, pending |-> None, controller |-> None]]
Save(g, text) == posts' = posts \cup {Row(g, "ai", text)}

\* A chunk is shown, or kept when the last one was shown just now.
ReadChunk(g) ==
  /\ gen[g].at = "reading"
  /\ \/ Update(g, Text("part", g)) /\ hook' = [hook EXCEPT ![gen[g].in].pending = None]
     \/ UNCHANGED messages /\ hook' = [hook EXCEPT ![gen[g].in].pending = g]
  /\ UNCHANGED <<rows, posts, gen, panel, list, faults, drifted>>

\* A plausible bug: an error is shown and not saved.
ReadLastUnsaved(g) ==
  /\ gen[g].at = "reading"
  /\ gen' = [gen EXCEPT ![g].at = "heard"]
  /\ \/ Update(g, Text("done", g)) /\ Save(g, Text("done", g))
     \/ Update(g, Text("error", g)) /\ UNCHANGED posts
  /\ UNCHANGED <<rows, panel, hook, list, faults, drifted>>

ReadLast(g) ==
  /\ gen[g].at = "reading"
  /\ gen' = [gen EXCEPT ![g].at = "heard"]
  /\ \E kind \in {"done", "error"} : Update(g, Text(kind, g)) /\ Save(g, Text(kind, g))
  /\ UNCHANGED <<rows, panel, hook, list, faults, drifted>>

\* The end of the stream: text kept from a chunk is shown now, whatever came after it, and
\* a message that is gone counts as an empty answer.
Finish(g) ==
  /\ gen[g].at = "heard"
  /\ LET kept == hook[gen[g].in].pending
     IN  IF Content(g) = {}
         THEN UNCHANGED messages /\ Save(g, Text("failed", g)) /\ UNCHANGED drifted
         ELSE /\ IF kept = None THEN UNCHANGED messages ELSE Update(g, Text("part", kept))
              /\ drifted' = IF kept = None THEN drifted ELSE drifted \cup {g}
              /\ UNCHANGED posts
  /\ Over(g)
  /\ UNCHANGED <<rows, panel, list, faults>>

\* Stopped, or cut off: one more save, also when the answer was complete and saved.
BreakOff(g, kind) ==
  /\ Update(g, Text(kind, g)) /\ Save(g, Text(kind, g))
  /\ Over(g)
  /\ drifted' = drifted \cup (IF gen[g].at = "heard" THEN {g} ELSE {})
  /\ UNCHANGED <<rows, panel, list>>

Stop(g) ==
  /\ gen[g].at \in {"reading", "heard"} /\ hook[panel].controller = g
  /\ BreakOff(g, "stopped") /\ UNCHANGED faults

CutOff(g) ==
  /\ gen[g].at \in {"reading", "heard"} /\ faults < MaxFaults /\ faults' = faults + 1
  /\ BreakOff(g, "failed")

\* The saves land in any order, or not at all.
SaveLands(p) ==
  /\ p \in posts /\ posts' = posts \ {p}
  /\ rows' = Append(rows, p)
  /\ UNCHANGED <<messages, gen, panel, hook, list, faults, drifted>>

SaveLost(p) ==
  /\ p \in posts /\ posts' = posts \ {p}
  /\ faults < MaxFaults /\ faults' = faults + 1
  /\ drifted' = drifted \cup {p.id}
  /\ UNCHANGED <<messages, rows, gen, panel, hook, list>>

\* The panel opens again: the list of chats arrives without messages, and asks for them.
Reopen ==
  /\ panel < MaxPanels /\ list = "shown"
  /\ panel' = panel + 1
  /\ messages' = <<>> /\ list' = "emptied"
  /\ drifted' = drifted \cup Loose
  /\ UNCHANGED <<rows, posts, gen, hook, faults>>

\* The messages are read and shown, in one step.
ListLoaded ==
  /\ list = "emptied" /\ list' = "shown"
  /\ messages' = Load(rows)
  /\ drifted' = drifted \cup Loose
  /\ UNCHANGED <<rows, posts, gen, panel, hook, faults>>

ChatNext ==
  \/ \E g \in Gens :
       \/ Send(g) \/ Edit(g) \/ DeleteAfter(g) \/ EditDone(g) \/ EditFails(g)
       \/ ReadChunk(g) \/ ReadLast(g) \/ Finish(g) \/ Stop(g) \/ CutOff(g)
  \/ \E p \in posts : SaveLands(p) \/ SaveLost(p)
  \/ Reopen \/ ListLoaded

ChatSpec == ChatInit /\ [][ChatNext]_chatVars

-----------------------------------------------------------------------------
Quiet == posts = {} /\ list = "shown" /\ \A g \in Gens : ~Under(g)

\* What the panel shows when nothing is under way is what it will show when opened again:
\* each message once, with the same text, and nothing that an edit has removed.  But for
\* what has drifted: saves lost, edits given up half-way or overtaken by a save, answers
\* stopped after their end, text of a chunk shown after the final text, generations beside
\* each other, and messages reloaded under a generation.
ReloadShowsTheSame ==
  LET Settled(m) == m.id \notin drifted
      shown == [i \in DOMAIN messages |-> Shown(messages[i])]
      Copies(s, m) == Cardinality({i \in DOMAIN s : s[i] = m})
  IN  Quiet => \A m \in ToSet(shown) \cup ToSet(rows) :
                 Settled(m) => Copies(shown, m) = 1 /\ Copies(rows, m) = 1
=============================================================================
