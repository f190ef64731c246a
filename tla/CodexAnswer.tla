----------------------------- MODULE CodexAnswer ------------------------------
(***************************************************************************)
(* How ralph_loop/codex_agent.py reads the last message of a review        *)
(* session: what is kept of a long one, the REVIEW_PASS marker, the guess   *)
(* when there is none, and the review comments it says it addressed.       *)
(*                                                                         *)
(* A message is a sequence of lines: a marker, <<"yes">> or <<"no">>, as    *)
(* the whole line; prose that says no findings are left, <<"clean">>, or    *)
(* that some are, <<"issues">>; <<"start", c>> and <<"end">> around a block *)
(* on comment c; and <<"one", c>>, the form of a single line.  The limit,   *)
(* of bytes in the code, is one of lines here: the lines that are kept whole. *)
(***************************************************************************)
EXTENDS Naturals, Sequences, FiniteSetsExt

CONSTANTS Comments,    \* ids of review comments
          MaxShown     \* CODEX_LAST_MESSAGE_LIMIT

ASSUME MaxShownPositive == MaxShown \in Nat \ {0}

Markers == {"yes", "no"}

Line == {<<word>> : word \in Markers \cup {"clean", "issues", "end"}}
          \cup ({"start", "one"} \X Comments)

Has(m, word) == \E i \in 1..Len(m) : m[i] = <<word>>

\* Mutant: only the head of a long message is kept.
ShownHead(m) == SubSeq(m, 1, IF Len(m) <= MaxShown THEN Len(m) ELSE MaxShown)

\* _read_last_message_bounded: the first half and the last, around a note.  The code glues
\* the note to the lines that are cut: what is left of them and the note are one line, which
\* is neither a marker nor a claim.
Shown(m) ==
  LET half == MaxShown \div 2
  IN IF Len(m) <= MaxShown THEN m
     ELSE SubSeq(m, 1, half) \o <<<<"truncated">>>>
            \o SubSeq(m, Len(m) - (MaxShown - half) + 1, Len(m))

Marks(m) == {i \in 1..Len(m) : m[i][1] \in Markers}

\* Mutant: the first marker counts.
MarkerFirst(m) == IF Marks(m) = {} THEN "none" ELSE m[Min(Marks(m))][1]

\* _extract_yes_no_marker, bottom up.
Marker(m) == IF Marks(m) = {} THEN "none" ELSE m[Max(Marks(m))][1]

\* _infer_review_pass_without_marker.
Infer(m) == IF Has(m, "issues") THEN "no" ELSE IF Has(m, "clean") THEN "yes" ELSE "none"

Verdict(m) == IF Marker(m) = "none" THEN Infer(m) ELSE Marker(m)

\* The line of the end of the block that starts at line i, past the message without one.
EndOf(m, i) == Min({j \in i + 1..Len(m) : m[j] = <<"end">>} \cup {Len(m) + 1})

IsClaim(m, i) == m[i][1] \in {"start", "one"}

\* The line that is read after line i; a block is skipped over.
After(m, i) == IF m[i][1] = "start" THEN EndOf(m, i) + 1 ELSE i + 1

\* Mutant: a comment is listed each time it is claimed.
AddressedAgain(m) ==
  LET from[i \in 1..Len(m) + 2] ==
        IF i > Len(m) THEN <<>>
        ELSE (IF IsClaim(m, i) THEN <<m[i][2]>> ELSE <<>>) \o from[After(m, i)]
  IN from[1]

\* The loop of _parse_addressed_comments from line i on, past the comments handled so far:
\* the first claim of a comment counts.
AddressedFrom(m) ==
  LET from[i \in 1..Len(m) + 2] ==
        [handled \in SUBSET Comments |->
           IF i > Len(m) THEN <<>>
           ELSE IF IsClaim(m, i) /\ m[i][2] \notin handled
             THEN <<m[i][2]>> \o from[After(m, i)][handled \cup {m[i][2]}]
             ELSE from[After(m, i)][handled]]
  IN from

Addressed(m) == AddressedFrom(m)[1][{}]

\* Line i is within a block: after a start without an end since.
Inside(m, i) ==
  \E s \in 1..i - 1 : m[s][1] = "start" /\ \A j \in s..i - 1 : m[j] # <<"end">>

\* The reference for Addressed: comment c has a block, or a line outside all blocks.
Claims(m, c) ==
  \E i \in 1..Len(m) : m[i] \in {<<"start", c>>, <<"one", c>>} /\ ~Inside(m, i)
===============================================================================
