--------------------------- MODULE ProviderStream ---------------------------
(***************************************************************************)
(* One call of the xAI Responses API: what the adapter makes of the bytes  *)
(* the provider streams.  The bytes arrive in chunks that need not end     *)
(* where an event ends; the decoder cuts them into events; the adapter     *)
(* turns an event into items for the conversation, or into an error that   *)
(* says whether the outcome of the call is known.                          *)
(*                                                                         *)
(* The result of the response is held back until the stream has ended      *)
(* behind it.                                                              *)
(***************************************************************************)
EXTENDS Naturals, Sequences, FiniteSets, SequencesExt

CONSTANTS Scenarios   \* [types, events, burst, faults]: what the provider may send

VARIABLES phase,      \* "asked", "streaming", "ended"
          chunk,      \* [events, boundary, open]: what the last chunk completed
          decoder,    \* whether it holds an event of which only the beginning came
          terminal,   \* the result that is held back: "none", "success", "failure"
          items,      \* what the conversation was given
          sent,       \* history: the events the provider sent, as far as handled
          left

vars == <<phase, chunk, decoder, terminal, items, sent, left>>

\* An error of the adapter is final; it is known to have failed the call or not.
Known == "known failure"
Unknown == "outcome unknown"
Errors == {Known, Unknown}

NoChunk == [events |-> <<>>, boundary |-> FALSE, open |-> FALSE]

Init ==
  /\ left \in Scenarios
  /\ phase = "asked" /\ chunk = NoChunk /\ decoder = FALSE
  /\ terminal = "none" /\ items = <<>> /\ sent = <<>>

-----------------------------------------------------------------------------
(* Events.  [type, sound]: the type the provider names, and whether the      *)
(* fields that the adapter reads are there and agree with it.               *)

Ends(item) == phase' = "ended" /\ items' = Append(items, item)

\* The items of an event that is not an error.
Shown ==
  [created |-> <<"started">>, delta |-> <<"text">>, annotation |-> <<"citation">>,
   annotations |-> <<"citation">>, other |-> <<>>]

\* completed_events: usage is accounted for before the response is complete.
Completion == <<"citation", "usage", "completed">>

\* What a sound event means; "response.done" says by its status which it is.
Meaning(event) ==
  CASE event.type \in {"completed", "done completed"} -> "success"
    [] event.type \in {"incomplete", "done incomplete", "failed", "error"} -> "failure"
    [] OTHER -> "items"

\* Some event types are shown whatever else they carry.
Lenient == {"created", "other", "end marker"}

Valid(event) == event.sound \/ event.type \in Lenient

-----------------------------------------------------------------------------
(* The request. *)

\* The request is not one the API takes, or the API answers with an error
\* status: nothing was generated.
Refused ==
  /\ phase = "asked"
  /\ Ends(Known)
  /\ UNCHANGED <<chunk, decoder, terminal, sent, left>>

\* The request may have reached the provider.
Unanswered ==
  /\ phase = "asked"
  /\ Ends(Unknown)
  /\ UNCHANGED <<chunk, decoder, terminal, sent, left>>

\* The header on retention is passed on first, when it says anything.
Opened ==
  /\ phase = "asked"
  /\ phase' = "streaming"
  /\ items' \in {<<>>, <<"retention">>}
  /\ UNCHANGED <<chunk, decoder, terminal, sent, left>>

-----------------------------------------------------------------------------
(* The stream. *)

Waiting == phase = "streaming" /\ ~chunk.open

\* A chunk completes some events, and may begin another.
Chunk ==
  /\ Waiting
  /\ \E new \in UNION {[1..n -> [type : left.types, sound : BOOLEAN]] : n \in 0..left.burst},
        pending \in BOOLEAN :
       /\ Len(new) <= left.events
       /\ Cardinality({i \in DOMAIN new : ~new[i].sound}) <= left.faults
       /\ chunk' = [events |-> new, boundary |-> FALSE, open |-> TRUE]
       /\ decoder' = pending
       /\ left' = [left EXCEPT !.events = @ - Len(new),
                     !.faults = @ - Cardinality({i \in DOMAIN new : ~new[i].sound})]
  /\ UNCHANGED <<phase, terminal, items, sent>>

\* The event that arrives is longer than the decoder's buffer.
Oversized ==
  /\ Waiting
  /\ Ends(Unknown)
  /\ UNCHANGED <<chunk, decoder, terminal, sent, left>>

\* The connection breaks: whatever is held back, the stream was not whole.
Broken ==
  /\ Waiting
  /\ Ends(Unknown)
  /\ UNCHANGED <<chunk, decoder, terminal, sent, left>>

Arrived == Head(chunk.events)
Handled ==
  /\ chunk' = [chunk EXCEPT !.events = Tail(@)]
  /\ sent' = Append(sent, Arrived)

\* Nothing may follow the end marker in its chunk, nor a result.
Trailing ==
  \/ chunk.boundary
  \/ terminal # "none" /\ Arrived.type # "end marker"

Reading == phase = "streaming" /\ chunk.open /\ chunk.events # <<>>

TrailingEvent ==
  /\ Reading /\ Trailing
  /\ Handled /\ Ends(Unknown)
  /\ UNCHANGED <<decoder, terminal, left>>

EndMarker ==
  /\ Reading /\ ~Trailing /\ Arrived.type = "end marker"
  /\ chunk' = [chunk EXCEPT !.events = Tail(@), !.boundary = TRUE]
  /\ sent' = Append(sent, Arrived)
  /\ UNCHANGED <<phase, decoder, terminal, items, left>>

\* An event that cannot be read leaves the outcome unknown.
UnreadableEvent ==
  /\ Reading /\ ~Trailing /\ Arrived.type # "end marker" /\ ~Valid(Arrived)
  /\ Handled /\ Ends(Unknown)
  /\ UNCHANGED <<decoder, terminal, left>>

Readable == Reading /\ ~Trailing /\ Arrived.type # "end marker" /\ Valid(Arrived)

ShownEvent ==
  /\ Readable /\ Meaning(Arrived) = "items"
  /\ Handled
  /\ items' = items \o Shown[Arrived.type]
  /\ UNCHANGED <<phase, decoder, terminal, left>>

ResultEvent ==
  /\ Readable /\ Meaning(Arrived) # "items"
  /\ Handled
  /\ terminal' = Meaning(Arrived)
  /\ UNCHANGED <<phase, decoder, items, left>>

-----------------------------------------------------------------------------
(* The end: only now the result is passed on. *)

TerminalBoundary ==
  CASE terminal = "success" -> Completion
    [] terminal = "failure" -> <<Known>>
    [] terminal = "none" -> <<Unknown>>

Closes == phase' = "ended" /\ items' = items \o (IF decoder THEN <<Unknown>> ELSE TerminalBoundary)

\* At the end of a chunk that held the end marker.
EndsAtMarker ==
  /\ phase = "streaming" /\ chunk.open /\ chunk.events = <<>> /\ chunk.boundary
  /\ Closes
  /\ UNCHANGED <<chunk, decoder, terminal, sent, left>>

ChunkDone ==
  /\ phase = "streaming" /\ chunk.open /\ chunk.events = <<>> /\ ~chunk.boundary
  /\ chunk' = NoChunk
  /\ UNCHANGED <<phase, decoder, terminal, items, sent, left>>

\* At the end of the body.
EndsWithBody ==
  /\ Waiting
  /\ Closes
  /\ UNCHANGED <<chunk, decoder, terminal, sent, left>>

Next ==
  \/ Refused \/ Unanswered \/ Opened
  \/ Chunk \/ Oversized \/ Broken \/ EndsWithBody
  \/ TrailingEvent \/ EndMarker \/ UnreadableEvent \/ ShownEvent \/ ResultEvent
  \/ EndsAtMarker \/ ChunkDone

-----------------------------------------------------------------------------
(* Properties. *)

Final(item) == item = "completed" \/ item \in Errors

Results == SelectSeq(sent, LAMBDA event : event.type # "end marker")

\* conversation_event_stream: whatever arrives in whatever chunks, the
\* conversation is given exactly one final item, at the end; a completed
\* response, or a failure known to be one, only when the provider's last word
\* was that, its events before it were sound and the stream was whole.
ProviderStreamSound ==
  /\ \A i \in DOMAIN items : Final(items[i]) => i = Len(items) /\ phase = "ended"
  /\ phase = "ended" =>
       /\ items # <<>> /\ Final(Last(items))
       /\ Last(items) = "completed" =>
            /\ Results # <<>> /\ Last(Results).type \in {"completed", "done completed"}
            /\ \A i \in DOMAIN sent : Valid(sent[i])
            /\ ~decoder
       /\ Last(items) = Known /\ sent # <<>> =>
            /\ Results # <<>> /\ Meaning(Last(Results)) = "failure"
            /\ \A i \in DOMAIN sent : Valid(sent[i])
  \* text is passed on as it comes, and none behind the result
  /\ Cardinality({i \in DOMAIN items : items[i] = "text"})
       = Cardinality({i \in DOMAIN sent : sent[i].type = "delta" /\ Valid(sent[i])
            /\ \A j \in 1..(i - 1) : Meaning(sent[j]) = "items" /\ sent[j].type # "end marker"})
=============================================================================
