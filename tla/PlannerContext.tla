--------------------------- MODULE PlannerContext ---------------------------
(***************************************************************************)
(* The bounded context of the planner's prompt: the conversation           *)
(* (agent/planning/memory.py) and the passages retrieved for planning      *)
(* (agent/planning/grounding.py).  Of a message or a passage only its      *)
(* length counts, and where it has white space.                            *)
(***************************************************************************)
EXTENDS Integers, Sequences

CONSTANTS max_messages, max_characters,                         \* BoundedHistoryConfig
          max_chunks, max_chars_per_chunk, max_total_chars      \* the limits of the grounding

ASSUME ContextAssumption ==
    {max_messages, max_characters, max_chunks, max_chars_per_chunk, max_total_chars} \subseteq Nat \ {0}

\* trusted: the role is one of allowed_roles; space: where in the content a
\* space is, 0 for nowhere and never first, as white space is normalised.
Messages == [trusted : BOOLEAN, size : Nat, space : Nat \ {1}]

\* Of the first n messages of the history, those of a trusted role that have a content.
Candidates(history) ==
    LET accepted[n \in 0..Len(history)] ==
          IF n = 0 THEN <<>>
          ELSE IF history[n].trusted /\ history[n].size > 0 THEN Append(accepted[n - 1], history[n])
          ELSE accepted[n - 1]
    IN accepted[Len(history)]

\* content[:room].rstrip()
Cut(message, room) ==
    IF message.size <= room THEN message.size
    ELSE IF message.space = room THEN room - 1 ELSE room

\* bug: the budget is not reduced by what is kept
KeepUncounted(message, memory) ==
    IF Len(memory.kept) >= max_messages \/ memory.room = 0
      THEN [memory EXCEPT !.truncated = TRUE]
      ELSE LET size == Cut(message, memory.room) IN
           [kept |-> <<[message EXCEPT !.size = size]>> \o memory.kept,
            room |-> memory.room, truncated |-> memory.truncated \/ size < message.size]

\* One step of the loop over the candidates.
Keep(message, memory) ==
    IF Len(memory.kept) >= max_messages \/ memory.room = 0
      THEN [memory EXCEPT !.truncated = TRUE]
      ELSE LET size == Cut(message, memory.room) IN
           [kept |-> <<[message EXCEPT !.size = size]>> \o memory.kept,
            room |-> memory.room - size, truncated |-> memory.truncated \/ size < message.size]

\* normalize_history_messages, the newest candidate first
BoundHistory(history) ==
    LET candidates == Candidates(history)
        newest(n) == candidates[Len(candidates) - n + 1]
        memory[n \in 0..Len(candidates)] ==
          IF n = 0 THEN [kept |-> <<>>, room |-> max_characters,
                         truncated |-> Len(candidates) < Len(history)]
          ELSE Keep(newest(n), memory[n - 1])
    IN memory[Len(candidates)]

----------------------------------------------------------------------------
SmallestOf(a, b) == IF a < b THEN a ELSE b

\* spaces: where in the text white space is; never first, as chunk_text strips
\* the paragraphs it puts together.
Passages == {p \in [size : Nat, spaces : SUBSET (Nat \ {0, 1})] : p.spaces \subseteq 1..p.size}

\* text[:n]
Beginning(passage, n) == [size |-> n, spaces |-> passage.spaces \cap 1..n]

\* _as_optional_string
Strip(passage) ==
    Beginning(passage, CHOOSE n \in 0..passage.size :
                         n \notin passage.spaces /\ n + 1..passage.size \subseteq passage.spaces)

\* bug: white space counts as text
GroundUnstripped(context, summary) ==
    LET bounded == SmallestOf(summary.size, SmallestOf(max_chars_per_chunk, max_total_chars - context.used)) IN
    IF Len(context.included) >= max_chunks \/ summary.size = 0 \/ context.used >= max_total_chars
      THEN [context EXCEPT !.truncated = TRUE]
      ELSE [included |-> Append(context.included, Beginning(summary, bounded)),
            used |-> context.used + bounded, truncated |-> context.truncated \/ bounded < summary.size]

\* One step of the loop over the passages.
GroundChunk(context, passage) ==
    LET summary == Strip(passage)
        bounded == SmallestOf(summary.size, SmallestOf(max_chars_per_chunk, max_total_chars - context.used)) IN
    IF Len(context.included) >= max_chunks \/ summary.size = 0 \/ context.used >= max_total_chars
      THEN [context EXCEPT !.truncated = TRUE]
      ELSE [included |-> Append(context.included, Beginning(summary, bounded)),
            used |-> context.used + bounded, truncated |-> context.truncated \/ bounded < summary.size]

\* build_grounding_context, the most similar passage first
Ground(passages) ==
    LET context[n \in 0..Len(passages)] ==
          IF n = 0 THEN [included |-> <<>>, used |-> 0, truncated |-> FALSE]
          ELSE GroundChunk(context[n - 1], passages[n])
    IN context[Len(passages)]

----------------------------------------------------------------------------
(* What the two should return, said without a loop *)

TotalSize(messages) ==
    LET total[n \in 0..Len(messages)] ==
          IF n = 0 THEN 0 ELSE messages[Len(messages) - n + 1].size + total[n - 1]
    IN total[Len(messages)]

\* Nothing but the newest candidates, each from its beginning, within the
\* budget; none is left out or shortened unless the budget is used up (but for
\* a space at the cut); and truncated says whether something is missing.
IsNewestOf(memory, history) ==
    LET candidates == Candidates(history)
        kept == memory.kept
        older == Len(candidates) - Len(kept) IN
    /\ Len(kept) <= max_messages /\ TotalSize(kept) <= max_characters
    /\ older >= 0
    /\ \A i \in 1..Len(kept) : /\ kept[i].size \in 1..candidates[older + i].size
                               /\ kept[i] = [candidates[older + i] EXCEPT !.size = kept[i].size]
    /\ kept # candidates => Len(kept) = max_messages \/ TotalSize(kept) >= max_characters - 1
    /\ memory.truncated <=> kept # history

Stripped(passages) == [i \in 1..Len(passages) |-> Strip(passages[i])]

\* At most max_chunks passages, the first ones, within both budgets; truncated
\* says whether something is missing.  The prompt's text is made of what has
\* been grounded by grounding it again: that leaves the passages as they are,
\* but for white space at a cut, and its own truncated is always false.
IsHonestGrounding(context, passages) ==
    LET again == Ground(context.included) IN
    /\ Len(context.included) <= max_chunks
    /\ context.used <= max_total_chars
    /\ \A i \in 1..Len(context.included) : context.included[i].size <= max_chars_per_chunk
    /\ context.truncated <=> context.included # Stripped(passages)
    /\ again.included = Stripped(context.included) /\ ~again.truncated
=============================================================================
