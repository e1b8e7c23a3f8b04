------------------------------ MODULE Console -------------------------------
(***************************************************************************)
(* nop/log.c over the screen and the heap. Everything logged goes to the   *)
(* screen, and once log_init has ended the early mode also to a buffer     *)
(* that realloc lets grow. realloc may ask for pages, and page_alloc logs  *)
(* a refusal: that message is written while log_write is in realloc, with  *)
(* log_size already new and log_buffer and log_offset still old.           *)
(***************************************************************************)
EXTENDS Text

CONSTANTS
  AllocSize,   \* LOG_ALLOC_SIZE: 4096
  Pieces,      \* what log passes to log_write at a time
  Complaint,   \* page_alloc's message, which log writes char by char
  MaxWritten   \* bound: what is logged in all

ASSUME ConsoleAssumption ==
  /\ AllocSize \in Nat \ {0} /\ MaxWritten \in Nat
  /\ Pieces \subseteq Seq(Plain \cup High \cup {Newline})
  /\ Complaint \in Seq(Plain) /\ Len(Complaint) \in 1 .. AllocSize

VARIABLES
  text,        \* the screen
  early,       \* log_is_early
  log_buffer,  \* the bytes of the allocation, or NULL
  log_offset, log_size,
  calls,       \* the calls of log_write in progress, the innermost last:
               \* what is left to write and where the call is
  refused,     \* history: a request for pages has been refused
  corrupt,     \* history: a store has missed the allocation
  written,     \* history: everything passed to log_write
  since        \* history: how much of it came before log_init

logVars == <<early, log_buffer, log_offset, log_size>>
vars == <<text, logVars, calls, refused, corrupt, written, since>>

NULL == <<>>  \* an allocation is never empty
Unwritten == "unwritten"

(* i386_start_c: text_init and log_early(text_write). *)
Init ==
  /\ text = TextInit /\ early = TRUE
  /\ log_buffer = NULL /\ log_offset = 0 /\ log_size = 0
  /\ calls = <<>> /\ refused = FALSE /\ corrupt = FALSE
  /\ written = <<>> /\ since = 0

LogInit ==
  /\ early /\ calls = <<>>
  /\ early' = FALSE
  /\ log_buffer' = NULL /\ log_offset' = 0 /\ log_size' = 0
  /\ since' = Len(written)
  /\ UNCHANGED <<text, calls, refused, corrupt, written>>

-----------------------------------------------------------------------------
Call(str, rest) == [str |-> str, rest |-> rest, at |-> "screen"]

Top == calls[Len(calls)]

GoTo(place) == calls' = [calls EXCEPT ![Len(calls)].at = place]

(* The call is over; log goes on with the next piece of its message. *)
Done ==
  calls' = IF Top.rest = <<>> THEN Front(calls)
           ELSE Append(Front(calls), Call(<<Head(Top.rest)>>, Tail(Top.rest)))

Log ==
  /\ calls = <<>> /\ ~corrupt
  /\ \E str \in Pieces :
       /\ Len(written) + Len(str) <= MaxWritten
       /\ calls' = <<Call(str, <<>>)>>
  /\ UNCHANGED <<text, logVars, refused, corrupt, written, since>>

(* log_write_ptr is text_write. *)
WriteScreen ==
  /\ calls # <<>> /\ Top.at = "screen"
  /\ text' = TextWrite(text, Top.str)
  /\ written' = written \o Top.str
  /\ IF early THEN Done ELSE GoTo("size")
  /\ UNCHANGED <<logVars, refused, corrupt, since>>

NewSize(m) == (1 + (m + (AllocSize - 1)) \div AllocSize) * AllocSize

(* Variant: the new size is stored when realloc has returned. *)
GrowUnmarked ==
  /\ calls # <<>> /\ Top.at = "size"
  /\ IF log_size < log_offset + Len(Top.str) THEN GoTo("realloc") ELSE GoTo("store")
  /\ UNCHANGED <<text, logVars, refused, corrupt, written, since>>

(* Variant: only the bytes already there are counted. *)
GrowLate ==
  /\ calls # <<>> /\ Top.at = "size"
  /\ IF log_size < log_offset
       THEN log_size' = NewSize(log_offset + Len(Top.str)) /\ GoTo("realloc")
       ELSE UNCHANGED log_size /\ GoTo("store")
  /\ UNCHANGED <<text, early, log_buffer, log_offset, refused, corrupt, written, since>>

Grow ==
  /\ calls # <<>> /\ Top.at = "size"
  /\ IF log_size < log_offset + Len(Top.str)
       THEN log_size' = NewSize(log_offset + Len(Top.str)) /\ GoTo("realloc")
       ELSE UNCHANGED log_size /\ GoTo("store")
  /\ UNCHANGED <<text, early, log_buffer, log_offset, refused, corrupt, written, since>>

-----------------------------------------------------------------------------
(* realloc. *)

Bytes(size, old) ==
  [k \in 0 .. size - 1 |-> IF k \in DOMAIN old THEN old[k] ELSE Unwritten]

(* The allocation, when there is one, is copied and freed. *)
Granted ==
  /\ calls # <<>> /\ Top.at = "realloc"
  /\ log_buffer' = Bytes(log_size, log_buffer)
  /\ GoTo("store")
  /\ UNCHANGED <<text, early, log_offset, log_size, refused, corrupt, written, since>>

(* page_alloc logs before it returns NULL. *)
Refused ==
  /\ calls # <<>> /\ Top.at = "realloc"
  /\ refused' = TRUE
  /\ calls' = Append([calls EXCEPT ![Len(calls)].at = "null"],
                     Call(<<Head(Complaint)>>, Tail(Complaint)))
  /\ UNCHANGED <<text, logVars, corrupt, written, since>>

(* realloc copies to the NULL it has got, and frees the allocation. What is *)
(* stored at NULL, in low memory, is not modelled.                          *)
ReturnNull ==
  /\ calls # <<>> /\ Top.at = "null"
  /\ log_buffer' = NULL
  /\ GoTo("store")
  /\ UNCHANGED <<text, early, log_offset, log_size, refused, corrupt, written, since>>

-----------------------------------------------------------------------------
Target == log_offset .. log_offset + Len(Top.str) - 1

(* memcpy; past the end of the allocation it hits a header of the heap, and *)
(* what follows is not modelled.                                            *)
Store ==
  /\ calls # <<>> /\ Top.at = "store"
  /\ log_buffer' = [k \in DOMAIN log_buffer |->
                     IF k \in Target THEN Top.str[k - log_offset + 1] ELSE log_buffer[k]]
  /\ log_offset' = log_offset + Len(Top.str)
  /\ corrupt' = (log_buffer # NULL /\ ~(Target \subseteq DOMAIN log_buffer))
  /\ IF corrupt' THEN calls' = <<>> ELSE Done
  /\ UNCHANGED <<text, early, log_size, refused, written, since>>

Next ==
  \/ LogInit \/ Log \/ WriteScreen \/ Grow
  \/ Granted \/ Refused \/ ReturnNull \/ Store

Spec == Init /\ [][Next]_vars

-----------------------------------------------------------------------------
(* The screen shows the end of everything ever logged, across scrolling    *)
(* and full lines, the complaints inside other messages included.          *)
ScreenShowsAll == ShowsEndOf(text, written)

(* As long as memory lasts, the buffer holds everything logged since       *)
(* log_init, through every growth, and no store misses the allocation.     *)
LogKept ==
  ~refused => /\ ~corrupt
              /\ ~early /\ calls = <<>> =>
                   /\ log_offset = Len(written) - since
                   /\ 0 .. log_offset - 1 \subseteq DOMAIN log_buffer
                   /\ \A k \in 0 .. log_offset - 1 : log_buffer[k] = written[since + k + 1]

(* The complaint about a refused request asks for nothing itself: log_size *)
(* has been raised before, by more than the complaint's length. Otherwise  *)
(* log_write, realloc and page_alloc would call each other without end.    *)
ComplaintAsksNothing == Len(calls) <= 2
=============================================================================
