------------------------------ MODULE Streams ------------------------------
(***************************************************************************)
(* Streams and captured output (streams.c).  Output goes to wherever the   *)
(* hooks point: to the terminal or to the buffer of a with_output_to/2     *)
(* that is running, one inside another.  Streams are slots of a table that *)
(* hold a C file handle; the C library keeps what is written until the     *)
(* file is closed and what is read from the first line on (external).      *)
(***************************************************************************)
EXTENDS Integers, Sequences, FiniteSets, SequencesExt

CONSTANTS
  Paths,             \* of files
  Words,             \* texts that are written: sequences of characters and NL
  MAX_OPEN_STREAMS,
  BCAP_SIZE,         \* characters of a capture's buffer, with its NUL
  LINE_SIZE,         \* characters of a line that is read, with its NUL
  MaxCaptures,       \* bounds of the model: captures inside one another,
  MaxText            \* characters written to one place

ASSUME StreamsAssumption ==
  /\ MAX_OPEN_STREAMS \in Nat /\ MaxCaptures \in Nat /\ MaxText \in Nat
  /\ BCAP_SIZE \in Nat \ {0} /\ LINE_SIZE \in Nat \ {0, 1}
  /\ \A word \in Words : word \in Seq(Range(word) \ {"NUL"})  \* C strings

VARIABLES
  files,         \* contents; a path without a file has none
  open_streams,  \* handles by slot
  captures,      \* the calls of with_output_to/2 that are running
  io_hooks,      \* which of them gets the output; 0: the terminal
  terminal,      \* what was printed
  written,       \* history: what goals wrote, to the terminal (1) and in each capture
  streams        \* history: slots the program was given, and those it was not

streamsVars ==
  << files, open_streams, captures, io_hooks, terminal, written, streams >>

Slots == 0 .. MAX_OPEN_STREAMS - 1
NL == "NL"
Missing == << "missing" >>      \* no file
NotRead == << "not read" >>     \* nothing read through a handle yet
Closed == [mode |-> "closed", path |-> "", text |-> << >>, at |-> 0]

StreamsInit ==
  /\ files = [path \in Paths |-> Missing]
  /\ open_streams = [id \in Slots |-> Closed]
  /\ captures = << >> /\ io_hooks = 0 /\ terminal = << >>
  /\ written = << << >> >> /\ streams = [held |-> {}, lost |-> {}]

-----------------------------------------------------------------------------
(* Output and its capture                                                  *)

\* As much as there is room for; a formatted text may lose one more character.
bcap_write_str(c, word) ==
  LET len == Min({Len(word), BCAP_SIZE - Len(c.buf) - 1})
  IN [c EXCEPT !.buf = @ \o SubSeq(word, 1, len)]

bcap_writef(c, word) ==
  LET rem == BCAP_SIZE - Len(c.buf) - 1
  IN IF Len(word) < rem THEN bcap_write_str(c, word)
     ELSE IF rem = 0 THEN c
     ELSE [c EXCEPT !.buf = @ \o SubSeq(word, 1, rem - 1) \o << "NUL" >>]

\* The text of a C string.
c_str(buf) == IF "NUL" \in Range(buf)
              THEN SubSeq(buf, 1, SelectInSeq(buf, LAMBDA ch : ch = "NUL") - 1)
              ELSE buf

Noted(word) == written' = [written EXCEPT ![Len(written)] = @ \o word]

Output(word, write(_, _)) ==
  /\ Len(Last(written)) + Len(word) <= MaxText
  /\ IF io_hooks = 0 THEN terminal' = terminal \o word /\ UNCHANGED captures
     ELSE captures' = [captures EXCEPT ![io_hooks] = write(@, word)]
          /\ UNCHANGED terminal
  /\ Noted(word)
  /\ UNCHANGED << files, open_streams, io_hooks, streams >>

Write(word) == Output(word, bcap_write_str)
Writef(word) == Output(word, bcap_writef)

with_output_to ==
  /\ Len(captures) < MaxCaptures
  /\ captures' = Append(captures, [saved |-> io_hooks, buf |-> << >>])
  /\ io_hooks' = Len(captures) + 1
  /\ written' = Append(written, << >>)
  /\ UNCHANGED << files, open_streams, terminal, streams >>

\* Mutant: a goal that failed or threw returns before bcap_end().
CaptureEnds_Early(ok) ==
  /\ captures # << >>
  /\ captures' = Front(captures) /\ written' = Front(written)
  /\ io_hooks' = IF ok THEN Last(captures).saved ELSE io_hooks
  /\ UNCHANGED << files, open_streams, terminal, streams >>

\* The goal succeeds and the text is made a term, or it fails or throws.
CaptureEnds(ok) ==
  /\ captures # << >>
  /\ captures' = Front(captures) /\ written' = Front(written)
  /\ io_hooks' = Last(captures).saved
  /\ UNCHANGED << files, open_streams, terminal, streams >>

-----------------------------------------------------------------------------
(* Streams                                                                 *)

in_use(id) == open_streams[id] # Closed

\* fopen(); a file that is not there can only be written.
Openable(path, mode) == mode = "read" => files[path] # Missing
Opened(path, mode) ==
  [mode |-> mode, path |-> path, at |-> 0,
   text |-> IF mode = "read" THEN NotRead ELSE << >>]
Touched(path, mode) ==
  CASE mode = "write"                              -> << >>
    [] mode = "append" /\ files[path] = Missing    -> << >>
    [] OTHER                                       -> files[path]

\* Mutant: as many slots are in use as streams are open.
free_slot_Counted == Cardinality({id \in Slots : in_use(id)})

free_slot == Min({id \in Slots : ~in_use(id)} \cup {MAX_OPEN_STREAMS})

\* If the third argument does not unify the slot remains in use.
Open(path, mode, unifies) ==
  /\ free_slot < MAX_OPEN_STREAMS /\ Openable(path, mode)
  /\ open_streams' = [open_streams EXCEPT ![free_slot] = Opened(path, mode)]
  /\ files' = [files EXCEPT ![path] = Touched(path, mode)]
  /\ streams' = IF unifies
                THEN [streams EXCEPT !.held = @ \cup {<< free_slot, path >>}]
                ELSE [streams EXCEPT !.lost = @ \cup {<< free_slot, path >>}]
  /\ UNCHANGED << captures, io_hooks, terminal, written >>

\* What fclose() leaves in the file: at the end of it, or over its beginning.
Flushed(s) ==
  LET old == files[s.path]
  IN CASE s.mode = "append" -> old \o s.text
       [] s.mode = "write"  -> s.text \o SubSeq(old, Len(s.text) + 1, Len(old))
       [] OTHER             -> old

\* A program can only close what it was given (the term is `$stream'(id)).
Close(id) ==
  /\ \E path \in Paths : << id, path >> \in streams.held
  /\ in_use(id)
  /\ files' = [files EXCEPT ![open_streams[id].path] = Flushed(open_streams[id])]
  /\ open_streams' = [open_streams EXCEPT ![id] = Closed]
  /\ streams' = [streams EXCEPT !.held = {s \in @ : s[1] # id}]
  /\ UNCHANGED << captures, io_hooks, terminal, written >>

\* write/2 and its like: the hooks point to the file and back.  What is
\* written to a stream opened for reading is lost.
WriteTo(id, word) ==
  /\ in_use(id) /\ open_streams[id].mode # "read"
  /\ Len(files[open_streams[id].path] \o open_streams[id].text) + Len(word) <= MaxText
  /\ open_streams' = [open_streams EXCEPT ![id].text = @ \o word]
  /\ UNCHANGED << files, captures, io_hooks, terminal, written, streams >>

\* The characters up to the end of the line, of the buffer or of the file.
LineEnd(text, at) ==
  Min({i \in at + 1 .. Len(text) : text[i] = NL}
      \cup {at + LINE_SIZE - 1, Len(text)})

read_line(id) ==
  LET s == open_streams[id]
      text == IF s.text = NotRead THEN files[s.path] ELSE s.text
  IN /\ in_use(id) /\ s.mode = "read"
     /\ open_streams' = [open_streams EXCEPT ![id].text = text,
                                             ![id].at = LineEnd(text, s.at)]
     /\ UNCHANGED << files, captures, io_hooks, terminal, written, streams >>

OutputNext ==
  \/ \E word \in Words : Write(word) \/ Writef(word)
  \/ with_output_to
  \/ \E ok \in BOOLEAN : CaptureEnds(ok)

\* (write/2 sets the hooks and puts them back without anything in between, so
\* that streams and captures do not meet.)
SlotsNext ==
  \/ \E path \in Paths, mode \in {"read", "write", "append"}, unifies \in BOOLEAN :
       Open(path, mode, unifies)
  \/ \E id \in Slots :
       Close(id) \/ read_line(id) \/ \E word \in Words : WriteTo(id, word)

StreamsSpec == StreamsInit /\ [][OutputNext \/ SlotsNext]_streamsVars

-----------------------------------------------------------------------------

\* What a goal writes arrives where it should: on the terminal all of it, in
\* the with_output_to/2 that runs it the beginning, as far as the buffer goes.
TextsArrive ==
  /\ terminal = written[1]
  /\ \A n \in DOMAIN captures :
       LET text == c_str(captures[n].buf)
       IN /\ IsPrefix(text, written[n + 1])
          /\ Len(written[n + 1]) < BCAP_SIZE - 1 => text = written[n + 1]

\* A stream term means the file it was opened for until it is closed, whatever
\* else is opened and closed; and no slot is in use but those of streams the
\* program holds and those lost by an open/3 that did not unify.
StreamsStay ==
  LET known == streams.held \cup streams.lost
  IN /\ \A s \in known : in_use(s[1]) /\ open_streams[s[1]].path = s[2]
     /\ {s[1] : s \in known} = {id \in Slots : in_use(id)}
=============================================================================
