---------------------------- MODULE ConsoleProofs ----------------------------
(***************************************************************************)
(* Proofs about the log's buffer and the text screen, for every size of    *)
(* both, everything that may be logged, and every refusal of memory.       *)
(***************************************************************************)
EXTENDS Console, SequenceTheorems, FiniteSetTheorems, TLAPS

LEMMA Constants ==
  /\ AllocSize \in Nat \ {0}
  /\ Complaint \in Seq(Plain) /\ Len(Complaint) \in Nat \ {0} /\ Len(Complaint) <= AllocSize
BY ConsoleAssumption

LEMMA Quotient ==
  ASSUME NEW a \in Nat, NEW b \in Nat \ {0}
  PROVE  /\ a % b \in Nat /\ a % b < b
         /\ a \div b \in Nat
         /\ a = b * (a \div b) + (a % b)
OBVIOUS

(* The new size leaves room for another AllocSize bytes. *)
LEMMA NewSizeRoom ==
  ASSUME NEW m \in Nat
  PROVE  NewSize(m) \in Nat /\ NewSize(m) >= m + AllocSize
<1> DEFINE up == m + (AllocSize - 1)
           q == up \div AllocSize
           r == up % AllocSize
           p == AllocSize * q
<1>1. up \in Nat /\ up = m + (AllocSize - 1)
  BY Constants
<1>2. NewSize(m) = (1 + q) * AllocSize
  BY DEF NewSize
<1> HIDE DEF up
<1>3. q \in Nat /\ r \in Nat /\ r < AllocSize /\ up = p + r /\ p \in Int
  BY <1>1, Constants, Quotient
<1>4. (1 + q) * AllocSize = AllocSize + p
  BY <1>3, Constants
<1> HIDE DEF q, r, p
<1> QED BY <1>1, <1>2, <1>3, <1>4, Constants

LEMMA Short ==
  ASSUME NEW S, NEW s \in Seq(S), Len(s) <= 2, s # <<>>
  PROVE  Len(s) \in {1, 2} /\ Len(s) \in 1 .. Len(s) /\ Len(s) \in DOMAIN s /\ s[Len(s)] \in S
<1>1. Len(s) \in Nat /\ DOMAIN s = 1 .. Len(s)
  BY LenProperties
<1>2. Len(s) # 0
  BY EmptySeq
<1> DEFINE m == Len(s)
<1>3. m \in Nat /\ m # 0 /\ m <= 2
  BY <1>1, <1>2
<1> HIDE DEF m
<1>4. m \in {1, 2} /\ m \in 1 .. m
  BY <1>3
<1>5. s[m] \in S
  BY <1>1, <1>4, ElementOfSeq DEF m
<1> QED BY <1>1, <1>4, <1>5 DEF m

LEMMA Replaced ==
  ASSUME NEW S, NEW s \in Seq(S), NEW i \in 1 .. Len(s), NEW e \in S,
         NEW t, t = [s EXCEPT ![i] = e]
  PROVE  /\ t \in Seq(S) /\ Len(t) = Len(s) /\ t[i] = e
         /\ \A j \in 1 .. Len(s) : j # i => t[j] = s[j]
BY ExceptSeq

LEMMA Appended ==
  ASSUME NEW S, NEW s \in Seq(S), Len(s) = 1, NEW e \in S, NEW t, t = Append(s, e)
  PROVE  t \in Seq(S) /\ Len(t) = 2 /\ t[1] = s[1] /\ t[2] = e
<1> DEFINE a == Append(s, e)
<1>1. a \in Seq(S) /\ Len(a) = Len(s) + 1
  BY AppendProperties
<1>2. \A i \in 1 .. Len(s) : a[i] = s[i]
  BY AppendProperties
<1>3. a[Len(s) + 1] = e
  BY AppendProperties
<1>4. t = a
  OBVIOUS
<1> HIDE DEF a
<1>5. Len(a) = 2 /\ a[1] = s[1] /\ a[2] = e
  BY <1>1, <1>2, <1>3
<1> QED BY <1>1, <1>4, <1>5

-----------------------------------------------------------------------------
Char == Plain \cup High \cup {Newline}

CallRecord == [str : Seq(Char), rest : Seq(Char),
               at : {"screen", "size", "realloc", "null", "store"}]

(* The call that is inside another one has room for all of its message. *)
InnerInv ==
  Len(calls) = 2 =>
    /\ calls[1].at = "null"
    /\ calls[2].at \in {"screen", "size", "store"}
    /\ log_offset + Len(calls[2].str) + Len(calls[2].rest) <= log_size

CallsInv ==
  /\ calls \in Seq(CallRecord) /\ Len(calls) <= 2
  /\ log_offset \in Nat /\ log_size \in Nat
  /\ InnerInv
  /\ calls # <<>> /\ Top.at = "realloc" =>
       log_size >= log_offset + Len(Top.str) + Len(Complaint)

LEMMA TopRecord ==
  ASSUME CallsInv, calls # <<>>
  PROVE  /\ Len(calls) \in {1, 2} /\ Len(calls) \in DOMAIN calls
         /\ Top \in CallRecord
         /\ Top.str \in Seq(Char) /\ Len(Top.str) \in Nat
         /\ Top.rest \in Seq(Char) /\ Len(Top.rest) \in Nat
         /\ Top.at \in {"screen", "size", "realloc", "null", "store"}
<1>1. Len(calls) \in {1, 2} /\ Len(calls) \in DOMAIN calls /\ calls[Len(calls)] \in CallRecord
  BY Short DEF CallsInv
<1>2. Top \in CallRecord
  BY <1>1 DEF Top
<1> QED BY <1>1, <1>2 DEF CallRecord

LEMMA GoToRecord ==
  ASSUME CallsInv, calls # <<>>, NEW place \in {"screen", "size", "realloc", "null", "store"},
         NEW next, next = [calls EXCEPT ![Len(calls)].at = place]
  PROVE  /\ next \in Seq(CallRecord) /\ Len(next) = Len(calls) /\ next # <<>>
         /\ next[Len(calls)] = [Top EXCEPT !.at = place]
         /\ next[Len(calls)].at = place
         /\ next[Len(calls)].str = Top.str /\ next[Len(calls)].rest = Top.rest
         /\ Len(calls) = 2 => next[1] = calls[1]
<1> DEFINE top == [Top EXCEPT !.at = place]
<1>1. top \in CallRecord /\ top.at = place /\ top.str = Top.str /\ top.rest = Top.rest
  BY TopRecord DEF CallRecord
<1>2. next = [calls EXCEPT ![Len(calls)] = top]
  BY DEF Top
<1> HIDE DEF top
<1>3. /\ next \in Seq(CallRecord) /\ Len(next) = Len(calls) /\ next[Len(calls)] = top
      /\ Len(calls) = 2 => next[1] = calls[1]
  <2>1. calls \in Seq(CallRecord) /\ Len(calls) \in 1 .. Len(calls) /\ Len(calls) \in {1, 2}
    BY Short DEF CallsInv
  <2>2. /\ next \in Seq(CallRecord) /\ Len(next) = Len(calls) /\ next[Len(calls)] = top
        /\ \A j \in 1 .. Len(calls) : j # Len(calls) => next[j] = calls[j]
    BY <1>1, <1>2, <2>1, Replaced
  <2> QED BY <2>1, <2>2
<1>4. next # <<>>
  BY <1>3, TopRecord
<1> QED BY <1>1, <1>3, <1>4 DEF top

LEMMA CallIsRecord ==
  ASSUME NEW c \in Char, NEW rest \in Seq(Char)
  PROVE  /\ Call(<<c>>, rest) \in CallRecord
         /\ Call(<<c>>, rest).str = <<c>> /\ Len(<<c>>) = 1
         /\ Call(<<c>>, rest).rest = rest /\ Call(<<c>>, rest).at = "screen"
BY DEF Call, CallRecord

(* What log passes to log_write next. *)
LEMMA NextPiece ==
  ASSUME NEW s \in Seq(Char), s # <<>>
  PROVE  Head(s) \in Char /\ Tail(s) \in Seq(Char) /\ Len(Tail(s)) = Len(s) - 1
BY HeadTailProperties

LEMMA FrontOf ==
  ASSUME NEW S, NEW s \in Seq(S), Len(s) \in {1, 2}, NEW t, t = Front(s)
  PROVE  /\ t \in Seq(S) /\ Len(t) = Len(s) - 1
         /\ \A j \in 1 .. Len(s) - 1 : t[j] = s[j]
<1> DEFINE m == Len(s) - 1
<1>1. /\ m \in {0, 1} /\ m \in Int /\ t = SubSeq(s, 1, m)
      /\ \A j \in 1 .. m : j \in 1 .. Len(s)
  BY DEF Front
<1>2. \A j \in 1 .. m : s[j] \in S
  BY <1>1, ElementOfSeq
<1> HIDE DEF m
<1>3. /\ t \in Seq(S) /\ Len(t) = IF 1 <= m THEN m - 1 + 1 ELSE 0
      /\ \A j \in 1 .. m - 1 + 1 : t[j] = s[1 + j - 1]
  BY <1>1, <1>2, SubSeqProperties
<1>4. Len(t) = m /\ \A j \in 1 .. m : t[j] = s[j]
  BY <1>1, <1>3
<1> QED BY <1>3, <1>4 DEF m

LEMMA DoneRecord ==
  ASSUME CallsInv, calls # <<>>, Done
  PROVE  /\ calls' \in Seq(CallRecord)
         /\ Len(calls) = 2 => calls'[1] = calls[1]
         /\ IF Top.rest = <<>> THEN Len(calls') = Len(calls) - 1
            ELSE /\ Len(calls') = Len(calls)
                 /\ Len(calls'[Len(calls)].str) = 1
                 /\ Len(calls'[Len(calls)].rest) = Len(Top.rest) - 1
                 /\ calls'[Len(calls)].at = "screen"
<1> DEFINE front == Front(calls)
           m == Len(calls)
<1>1. calls \in Seq(CallRecord) /\ m \in {1, 2} /\ Top.rest \in Seq(Char)
  BY TopRecord DEF CallsInv
<1>2. /\ front \in Seq(CallRecord) /\ Len(front) = m - 1
      /\ \A j \in 1 .. m - 1 : front[j] = calls[j]
  BY <1>1, FrontOf
<1> HIDE DEF front, m
<1>3. CASE Top.rest = <<>>
  <2>1. calls' = front
    BY <1>3 DEF Done, front
  <2>2. m = 2 => calls'[1] = calls[1]
    BY <1>2, <2>1
  <2> QED BY <1>2, <1>3, <2>1, <2>2 DEF m
<1>4. CASE Top.rest # <<>>
  <2> DEFINE r == Call(<<Head(Top.rest)>>, Tail(Top.rest))
  <2>1. /\ r \in CallRecord /\ Len(r.str) = 1 /\ Len(r.rest) = Len(Top.rest) - 1
        /\ r.at = "screen"
    <3> DEFINE head == Head(Top.rest)
               tail == Tail(Top.rest)
    <3>1. head \in Char /\ tail \in Seq(Char) /\ Len(tail) = Len(Top.rest) - 1
      BY <1>1, <1>4, NextPiece
    <3> HIDE DEF head, tail
    <3>2. /\ Call(<<head>>, tail) \in CallRecord
          /\ Len(Call(<<head>>, tail).str) = 1
          /\ Len(Call(<<head>>, tail).rest) = Len(Top.rest) - 1
          /\ Call(<<head>>, tail).at = "screen"
      BY <3>1, CallIsRecord
    <3> QED BY <3>2 DEF head, tail
  <2>2. calls' = Append(front, r)
    BY <1>4 DEF Done, front
  <2> HIDE DEF r
  <2>3. /\ calls' \in Seq(CallRecord) /\ Len(calls') = m /\ calls'[m] = r
        /\ \A j \in 1 .. m - 1 : calls'[j] = calls[j]
    BY <1>1, <1>2, <2>1, <2>2, AppendProperties
  <2>4. m = 2 => calls'[1] = calls[1]
    BY <2>3
  <2> QED BY <1>4, <2>1, <2>3, <2>4 DEF m
<1> QED BY <1>3, <1>4

-----------------------------------------------------------------------------
LEMMA StringsAreChars ==
  /\ Complaint \in Seq(Char) /\ Complaint # <<>>
  /\ \A str \in Pieces : str \in Seq(Char)
<1>1. Complaint \in Seq(Char)
  BY Constants, SeqMonotonic DEF Char
<1>2. Complaint # <<>>
  BY Constants, EmptySeq
<1> QED BY <1>1, <1>2, ConsoleAssumption DEF Char

LEMMA InitCallsInv == Init => CallsInv
<1> SUFFICES ASSUME Init PROVE CallsInv
  OBVIOUS
<1>1. calls = <<>> /\ log_offset = 0 /\ log_size = 0
  BY DEF Init
<1>2. calls \in Seq(CallRecord) /\ Len(calls) = 0
  BY <1>1, EmptySeq
<1> QED BY <1>1, <1>2 DEF CallsInv, InnerInv

LEMMA LogInitCallsInv ==
  ASSUME CallsInv, LogInit
  PROVE  CallsInv'
<1>1. calls = <<>> /\ calls' = <<>> /\ log_offset' = 0 /\ log_size' = 0
  BY DEF LogInit
<1>2. calls' \in Seq(CallRecord) /\ Len(calls') = 0
  BY <1>1, EmptySeq
<1> QED BY <1>1, <1>2 DEF CallsInv, InnerInv

LEMMA LogCallsInv ==
  ASSUME CallsInv, Log
  PROVE  CallsInv'
<1>1. PICK str \in Pieces : calls' = <<Call(str, <<>>)>>
  BY DEF Log
<1> DEFINE r == Call(str, <<>>)
<1>2. r \in CallRecord /\ r.at = "screen"
  BY StringsAreChars, EmptySeq DEF Call, CallRecord
<1> HIDE DEF r
<1>3. calls' = <<r>>
  BY <1>1 DEF r
<1>4. calls' \in Seq(CallRecord) /\ Len(calls') = 1 /\ calls'[1] = r
  BY <1>2, <1>3
<1>5. Top' = r
  BY <1>4 DEF Top
<1> QED BY <1>2, <1>4, <1>5 DEF CallsInv, InnerInv, Log, logVars

(* A call goes on at another place. *)
LEMMA GoToCallsInv ==
  ASSUME CallsInv, calls # <<>>, NEW place \in {"size", "realloc", "store"}, GoTo(place),
         NEW size \in Nat, size >= log_size, log_size' = size, UNCHANGED log_offset,
         place = "realloc" => Len(calls) = 1 /\ size >= log_offset + Len(Top.str) + Len(Complaint)
  PROVE  CallsInv'
<1> DEFINE m == Len(calls)
<1>1. /\ m \in {1, 2}
      /\ Len(Top.str) \in Nat /\ Len(Top.rest) \in Nat
      /\ log_offset \in Nat /\ log_size \in Nat /\ Len(Complaint) \in Nat
  BY TopRecord, Constants DEF CallsInv
<1>2. /\ calls' \in Seq(CallRecord) /\ Len(calls') = m
      /\ calls'[m].at = place
      /\ calls'[m].str = Top.str /\ calls'[m].rest = Top.rest
      /\ m = 2 => calls'[1] = calls[1]
  BY GoToRecord DEF GoTo
<1>3. Top' = calls'[m]
  BY <1>2 DEF Top
<1>4. m = 2 => /\ calls[1].at = "null" /\ Top = calls[2]
               /\ log_offset + Len(Top.str) + Len(Top.rest) <= log_size
  BY DEF CallsInv, InnerInv, Top
<1> HIDE DEF m
<1>5. m = 2 => log_offset + Len(Top.str) + Len(Top.rest) <= size
  <2> DEFINE a == Len(Top.str)
             b == Len(Top.rest)
  <2>1. a \in Nat /\ b \in Nat
    BY <1>1
  <2>2. m = 2 => log_offset + a + b <= log_size
    BY <1>4
  <2> HIDE DEF a, b
  <2>3. m = 2 => log_offset + a + b <= size
    BY <1>1, <2>1, <2>2
  <2> QED BY <2>3 DEF a, b
<1>8. m = 2 => place \in {"size", "store"}
  BY DEF m
<1>6. InnerInv'
  BY <1>2, <1>4, <1>5, <1>8 DEF InnerInv
<1>7. calls' # <<>> /\ Top'.at = "realloc" =>
        log_size' >= log_offset' + Len(Top'.str) + Len(Complaint)
  BY <1>2, <1>3 DEF m
<1> QED BY <1>1, <1>2, <1>6, <1>7 DEF CallsInv

(* A call is over, or goes on with the next piece of its message. *)
LEMMA DoneCallsInv ==
  ASSUME CallsInv, calls # <<>>, Done, UNCHANGED log_size,
         NEW offset \in Nat, offset <= log_offset + Len(Top.str), log_offset' = offset
  PROVE  CallsInv'
<1> DEFINE m == Len(calls)
           k == Len(calls')
<1>1. /\ m \in {1, 2}
      /\ Len(Top.str) \in Nat /\ Len(Top.rest) \in Nat
      /\ log_offset \in Nat /\ log_size \in Nat
  BY TopRecord DEF CallsInv
<1>2. /\ calls' \in Seq(CallRecord)
      /\ m = 2 => calls'[1] = calls[1]
      /\ IF Top.rest = <<>> THEN k = m - 1
         ELSE /\ k = m
              /\ Len(calls'[m].str) = 1 /\ Len(calls'[m].rest) = Len(Top.rest) - 1
              /\ calls'[m].at = "screen"
  BY DoneRecord
<1>3. m = 2 => /\ calls[1].at = "null" /\ Top = calls[2]
               /\ log_offset + Len(Top.str) + Len(Top.rest) <= log_size
  BY DEF CallsInv, InnerInv, Top
<1> HIDE DEF m, k
<1>4. k \in {0, 1, 2} /\ (k = 2 => m = 2 /\ Top.rest # <<>>)
  BY <1>1, <1>2
<1>5. ASSUME k = 2
      PROVE  offset + Len(calls'[2].str) + Len(calls'[2].rest) <= log_size
  <2> DEFINE a == Len(Top.str)
             b == Len(Top.rest)
             c == Len(calls'[2].str)
             d == Len(calls'[2].rest)
  <2>1. a \in Nat /\ b \in Nat /\ c = 1 /\ d = b - 1 /\ offset <= log_offset + a
        /\ log_offset + a + b <= log_size
    BY <1>1, <1>2, <1>3, <1>4, <1>5
  <2> HIDE DEF a, b, c, d
  <2>2. offset + c + d <= log_size
    BY <1>1, <2>1
  <2> QED BY <2>2 DEF c, d
<1>6. InnerInv'
  BY <1>2, <1>3, <1>4, <1>5 DEF InnerInv, k
<1>7. calls' # <<>> => Top'.at # "realloc"
  <2> SUFFICES ASSUME calls' # <<>> PROVE Top'.at # "realloc"
    OBVIOUS
  <2>1. k # 0 /\ Top' = calls'[k]
    BY <1>2, EmptySeq DEF k, Top
  <2>2. CASE Top.rest = <<>>
    BY <1>1, <1>2, <1>3, <2>1, <2>2
  <2>3. CASE Top.rest # <<>>
    BY <1>2, <2>1, <2>3
  <2> QED BY <2>2, <2>3
<1>8. k <= 2
  BY <1>4
<1> QED BY <1>1, <1>2, <1>6, <1>7, <1>8 DEF CallsInv, k

(* Only the outermost call waits for memory. *)
LEMMA OuterWaits ==
  ASSUME CallsInv, calls # <<>>, Top.at \in {"realloc", "null"}
  PROVE  Len(calls) = 1
BY TopRecord DEF CallsInv, InnerInv, Top

LEMMA WriteScreenCallsInv ==
  ASSUME CallsInv, WriteScreen
  PROVE  CallsInv'
<1>1. calls # <<>> /\ UNCHANGED <<log_offset, log_size>>
  BY DEF WriteScreen, logVars
<1>2. log_offset \in Nat /\ log_size \in Nat /\ Len(Top.str) \in Nat
  BY <1>1, TopRecord DEF CallsInv
<1>3. CASE Done
  <2>1. log_offset <= log_offset + Len(Top.str)
    BY <1>2
  <2> QED BY <1>1, <1>2, <1>3, <2>1, DoneCallsInv
<1>4. CASE GoTo("size")
  <2>1. log_size >= log_size
    BY <1>2
  <2> QED BY <1>1, <1>2, <1>4, <2>1, GoToCallsInv
<1> QED BY <1>3, <1>4 DEF WriteScreen

LEMMA GrowCallsInv ==
  ASSUME CallsInv, Grow
  PROVE  CallsInv'
<1> DEFINE need == log_offset + Len(Top.str)
<1>1. calls # <<>> /\ Top.at = "size" /\ UNCHANGED log_offset
  BY DEF Grow
<1>2. log_offset \in Nat /\ log_size \in Nat /\ Len(Top.str) \in Nat /\ need \in Nat
  BY <1>1, TopRecord DEF CallsInv
<1>3. CASE log_size < need
  <2> DEFINE size == NewSize(need)
  <2>1. size \in Nat /\ size >= need + AllocSize
    BY <1>2, NewSizeRoom
  <2>2. log_size' = size /\ GoTo("realloc")
    BY <1>3 DEF Grow
  <2> HIDE DEF size
  <2>3. Len(calls) = 1
    <3>1. CASE Len(calls) = 2
      <4> DEFINE a == Len(Top.str)
                 b == Len(Top.rest)
      <4>1. log_offset + a + b <= log_size
        BY <3>1 DEF CallsInv, InnerInv, Top
      <4>2. a \in Nat /\ b \in Nat /\ need = log_offset + a
        BY <1>1, TopRecord
      <4> HIDE DEF a, b, need
      <4> QED BY <1>2, <1>3, <4>1, <4>2
    <3> QED BY <1>1, <3>1, TopRecord
  <2>4. size >= need + Len(Complaint) /\ size >= log_size
    <3> HIDE DEF need
    <3> QED BY <1>2, <1>3, <2>1, Constants
  <2> QED BY <1>1, <2>1, <2>2, <2>3, <2>4, GoToCallsInv
<1>4. CASE ~(log_size < need)
  <2>1. log_size' = log_size /\ GoTo("store") /\ log_size >= log_size
    BY <1>2, <1>4 DEF Grow
  <2> QED BY <1>1, <1>2, <2>1, GoToCallsInv
<1> QED BY <1>3, <1>4

LEMMA ReallocCallsInv ==
  ASSUME CallsInv, Granted \/ ReturnNull
  PROVE  CallsInv'
<1>1. calls # <<>> /\ GoTo("store") /\ UNCHANGED <<log_offset, log_size>>
  BY DEF Granted, ReturnNull
<1>2. log_size \in Nat /\ log_size >= log_size
  BY DEF CallsInv
<1> QED BY <1>1, <1>2, GoToCallsInv

LEMMA RefusedCallsInv ==
  ASSUME CallsInv, Refused
  PROVE  CallsInv'
<1> DEFINE outer == [calls EXCEPT ![Len(calls)].at = "null"]
           inner == Call(<<Head(Complaint)>>, Tail(Complaint))
<1>1. /\ calls # <<>> /\ Top.at = "realloc" /\ calls' = Append(outer, inner)
      /\ UNCHANGED <<log_offset, log_size>>
  BY DEF Refused, logVars
<1>2. Len(calls) = 1
  BY <1>1, OuterWaits
<1>3. outer \in Seq(CallRecord) /\ Len(outer) = 1 /\ outer[1].at = "null"
  <2>1. /\ outer \in Seq(CallRecord) /\ Len(outer) = Len(calls)
        /\ outer[Len(calls)].at = "null"
    BY <1>1, GoToRecord
  <2> HIDE DEF outer
  <2> QED BY <1>2, <2>1
<1>4. /\ inner \in CallRecord /\ Len(inner.str) = 1 /\ Len(inner.rest) = Len(Complaint) - 1
      /\ inner.at = "screen"
  <2> DEFINE head == Head(Complaint)
             tail == Tail(Complaint)
  <2>1. head \in Char /\ tail \in Seq(Char) /\ Len(tail) = Len(Complaint) - 1
    BY StringsAreChars, NextPiece
  <2> HIDE DEF head, tail
  <2>2. /\ Call(<<head>>, tail) \in CallRecord
        /\ Len(Call(<<head>>, tail).str) = 1
        /\ Len(Call(<<head>>, tail).rest) = Len(Complaint) - 1
        /\ Call(<<head>>, tail).at = "screen"
    BY <2>1, CallIsRecord
  <2> QED BY <2>2 DEF head, tail
<1>5. /\ log_offset \in Nat /\ log_size \in Nat
      /\ log_size >= log_offset + Len(Top.str) + Len(Complaint)
      /\ Len(Top.str) \in Nat /\ Len(Complaint) \in Nat
  BY <1>1, TopRecord, Constants DEF CallsInv
<1> HIDE DEF outer, inner
<1>6. /\ calls' \in Seq(CallRecord) /\ Len(calls') = 2
      /\ calls'[1] = outer[1] /\ calls'[2] = inner
  <2> DEFINE both == Append(outer, inner)
  <2>1. calls' = both /\ both = Append(outer, inner)
    BY <1>1
  <2>2. inner \in CallRecord /\ outer \in Seq(CallRecord) /\ Len(outer) = 1
    BY <1>3, <1>4
  <2> HIDE DEF both
  <2>3. both \in Seq(CallRecord) /\ Len(both) = 2 /\ both[1] = outer[1] /\ both[2] = inner
    BY <2>1, <2>2, Appended
  <2> QED BY <2>1, <2>3
<1>7. Top' = inner
  BY <1>6 DEF Top
<1> DEFINE a == Len(Top.str)
           b == Len(Complaint)
           c == Len(inner.str)
           d == Len(inner.rest)
<1>8. a \in Nat /\ b \in Nat /\ c = 1 /\ d = b - 1 /\ log_size >= log_offset + a + b
  BY <1>4, <1>5
<1> HIDE DEF a, b, c, d
<1>9. log_offset + c + d <= log_size
  BY <1>5, <1>8
<1>10. InnerInv'
  BY <1>1, <1>3, <1>4, <1>6, <1>9 DEF InnerInv, c, d
<1> QED BY <1>1, <1>4, <1>5, <1>6, <1>7, <1>10 DEF CallsInv

LEMMA StoreCallsInv ==
  ASSUME CallsInv, Store
  PROVE  CallsInv'
<1> DEFINE offset == log_offset + Len(Top.str)
<1>1. calls # <<>> /\ log_offset' = offset /\ UNCHANGED log_size
  BY DEF Store
<1>2. log_offset \in Nat /\ log_size \in Nat /\ Len(Top.str) \in Nat /\ offset \in Nat
      /\ offset <= offset
  BY <1>1, TopRecord DEF CallsInv
<1>3. CASE Done
  BY <1>1, <1>2, <1>3, DoneCallsInv
<1>4. CASE calls' = <<>>
  <2>1. calls' \in Seq(CallRecord) /\ Len(calls') = 0
    BY <1>4, EmptySeq
  <2> QED BY <1>1, <1>2, <1>4, <2>1 DEF CallsInv, InnerInv
<1> QED BY <1>3, <1>4 DEF Store

LEMMA StepCallsInv == CallsInv /\ [Next]_vars => CallsInv'
<1> SUFFICES ASSUME CallsInv, [Next]_vars PROVE CallsInv'
  OBVIOUS
<1>1. CASE UNCHANGED vars
  BY <1>1 DEF vars, logVars, CallsInv, InnerInv, Top
<1> QED BY <1>1, LogInitCallsInv, LogCallsInv, WriteScreenCallsInv, GrowCallsInv,
        ReallocCallsInv, RefusedCallsInv, StoreCallsInv DEF Next

(* log_write, realloc, page_alloc and log do not call each other without   *)
(* end: the message about a refusal finds room for all of its characters.  *)
THEOREM Bounded == Spec => []ComplaintAsksNothing
<1>1. CallsInv => ComplaintAsksNothing
  BY DEF CallsInv, ComplaintAsksNothing
<1> QED BY <1>1, InitCallsInv, StepCallsInv, PTL DEF Spec

-----------------------------------------------------------------------------
(* As long as no request has been refused, one call at most is under way,  *)
(* and what it has shown on the screen but not yet stored is Pending.      *)
Showing == calls = <<>> \/ Top.at = "screen"

Pending == IF Showing THEN <<>> ELSE Top.str

OneCall == calls = <<>> \/ (Len(calls) = 1 /\ Top.rest = <<>> /\ Top.at # "null")

BufferInv ==
  /\ since + log_offset + Len(Pending) = Len(written)
  /\ \A k \in 1 .. Len(Pending) : written[since + log_offset + k] = Pending[k]
  /\ \A k \in 0 .. log_offset - 1 : log_buffer[k] = written[since + k + 1]
  /\ log_offset <= log_size
  /\ IF calls # <<>> /\ Top.at = "realloc"
       THEN 0 .. log_offset - 1 \subseteq DOMAIN log_buffer
       ELSE DOMAIN log_buffer = 0 .. log_size - 1
  /\ calls # <<>> /\ Top.at = "store" => log_offset + Len(Top.str) <= log_size

KeptInv ==
  ~refused =>
    /\ ~corrupt
    /\ written \in Seq(Char) /\ since \in Nat
    /\ OneCall
    /\ IF early THEN Showing ELSE BufferInv

(* The allocation with str stored in it holds what was written up to str. *)
LEMMA Stored ==
  ASSUME NEW off \in Nat, NEW len \in Nat, NEW size \in Nat, NEW from \in Nat,
         off + len <= size, NEW old, DOMAIN old = 0 .. size - 1, NEW str, NEW w,
         \A k \in 0 .. off - 1 : old[k] = w[from + k + 1],
         \A k \in 1 .. len : w[from + off + k] = str[k],
         NEW new,
         new = [k \in DOMAIN old |-> IF k \in off .. off + len - 1
                                       THEN str[k - off + 1] ELSE old[k]]
  PROVE  /\ DOMAIN new = 0 .. size - 1
         /\ off .. off + len - 1 \subseteq DOMAIN old
         /\ \A k \in 0 .. off + len - 1 : new[k] = w[from + k + 1]
<1>1. DOMAIN new = 0 .. size - 1 /\ off .. off + len - 1 \subseteq DOMAIN old
  OBVIOUS
<1>2. ASSUME NEW k \in 0 .. off + len - 1
      PROVE  new[k] = w[from + k + 1]
  <2>1. k \in DOMAIN old
    OBVIOUS
  <2>2. CASE k < off
    <3>1. new[k] = old[k] /\ k \in 0 .. off - 1
      BY <2>1, <2>2
    <3> QED BY <3>1
  <2>3. CASE k >= off
    <3> DEFINE j == k - off + 1
    <3>1. new[k] = str[j] /\ j \in 1 .. len /\ from + off + j = from + k + 1
      BY <2>1, <2>3
    <3>2. w[from + off + j] = str[j]
      BY <3>1
    <3> QED BY <3>1, <3>2
  <2> QED BY <2>2, <2>3
<1> QED BY <1>1, <1>2

(* What the screen has been given is appended to what was written. *)
LEMMA Extended ==
  ASSUME NEW s \in Seq(Char), NEW str \in Seq(Char), NEW w, w = s \o str,
         NEW off \in Nat, NEW from \in Nat, from + off = Len(s)
  PROVE  /\ w \in Seq(Char) /\ Len(w) = Len(s) + Len(str)
         /\ \A k \in 1 .. Len(str) : w[from + off + k] = str[k]
         /\ \A k \in 0 .. off - 1 : w[from + k + 1] = s[from + k + 1]
<1> DEFINE a == Len(s)
           b == Len(str)
<1>1. a \in Nat /\ b \in Nat /\ from + off = a
  BY LenProperties
<1>2. /\ w \in Seq(Char) /\ Len(w) = a + b
      /\ \A i \in 1 .. a + b : w[i] = IF i <= a THEN s[i] ELSE str[i - a]
  BY ConcatProperties
<1> HIDE DEF a, b
<1>3. ASSUME NEW k \in 1 .. b PROVE w[from + off + k] = str[k]
  <2> DEFINE i == from + off + k
  <2>1. i \in 1 .. a + b /\ ~(i <= a) /\ i - a = k
    BY <1>1
  <2> HIDE DEF i
  <2>2. w[i] = str[i - a]
    BY <1>2, <2>1
  <2> QED BY <2>1, <2>2 DEF i
<1>4. ASSUME NEW k \in 0 .. off - 1 PROVE w[from + k + 1] = s[from + k + 1]
  <2> DEFINE i == from + k + 1
  <2>1. i \in 1 .. a + b /\ i <= a
    BY <1>1
  <2> HIDE DEF i
  <2>2. w[i] = s[i]
    BY <1>2, <2>1
  <2> QED BY <2>2 DEF i
<1> QED BY <1>2, <1>3, <1>4 DEF a, b

LEMMA InitKeptInv == Init => KeptInv
<1> SUFFICES ASSUME Init PROVE KeptInv
  OBVIOUS
<1>1. written \in Seq(Char)
  BY EmptySeq DEF Init
<1> QED BY <1>1 DEF Init, KeptInv, OneCall, Showing

LEMMA LogInitKeptInv ==
  ASSUME KeptInv, LogInit
  PROVE  KeptInv'
<1> SUFFICES ASSUME ~refused' PROVE KeptInv'
  BY DEF KeptInv
<1>1. /\ written \in Seq(Char) /\ ~corrupt /\ calls = <<>> /\ calls' = <<>>
      /\ UNCHANGED <<written, corrupt>> /\ early' = FALSE
      /\ log_buffer' = <<>> /\ log_offset' = 0 /\ log_size' = 0
      /\ since' = Len(written)
  BY DEF KeptInv, LogInit, NULL
<1> DEFINE m == Len(written)
<1>2. m \in Nat
  BY <1>1, LenProperties
<1>3. Showing' /\ OneCall'
  BY <1>1 DEF Showing, OneCall
<1>4. Pending' = <<>> /\ Len(Pending') = 0
  BY <1>3 DEF Pending
<1>5. Len(written') = m /\ since' = m /\ DOMAIN log_buffer' = 0 .. -1
  BY <1>1
<1> HIDE DEF m
<1>6. BufferInv'
  BY <1>1, <1>2, <1>4, <1>5 DEF BufferInv
<1> QED BY <1>1, <1>2, <1>3, <1>5, <1>6 DEF KeptInv

LEMMA LogKeptInv ==
  ASSUME KeptInv, Log
  PROVE  KeptInv'
<1> SUFFICES ASSUME ~refused' PROVE KeptInv'
  BY DEF KeptInv
<1>1. /\ ~refused /\ calls = <<>>
      /\ UNCHANGED <<early, log_buffer, log_offset, log_size, refused, corrupt, written, since>>
  BY DEF Log, logVars
<1>2. PICK str \in Pieces : calls' = <<Call(str, <<>>)>>
  BY DEF Log
<1> DEFINE r == Call(str, <<>>)
<1>3. r.at = "screen" /\ r.rest = <<>>
  BY DEF Call
<1> HIDE DEF r
<1>4. calls' = <<r>>
  BY <1>2 DEF r
<1>5. Len(calls') = 1 /\ Top' = r /\ calls' # <<>>
  BY <1>4 DEF Top
<1>6. Showing /\ Showing' /\ OneCall'
  BY <1>1, <1>3, <1>5 DEF Showing, OneCall
<1>7. Pending' = Pending
  BY <1>6 DEF Pending
<1>8. BufferInv => BufferInv'
  BY <1>1, <1>3, <1>5, <1>7 DEF BufferInv
<1> QED BY <1>1, <1>6, <1>8 DEF KeptInv

(* A call that goes on at another place. *)
LEMMA GoToTop ==
  ASSUME CallsInv, calls # <<>>, OneCall, NEW place \in {"size", "realloc", "store"},
         GoTo(place)
  PROVE  /\ calls' # <<>> /\ Top'.at = place /\ Top'.str = Top.str
         /\ OneCall' /\ ~Showing' /\ Pending' = Top.str
<1>1. Len(calls) = 1 /\ Top.rest = <<>>
  BY DEF OneCall
<1>2. /\ calls' # <<>> /\ Len(calls') = 1
      /\ calls'[1].at = place /\ calls'[1].str = Top.str /\ calls'[1].rest = Top.rest
  <2> DEFINE m == Len(calls)
  <2>1. /\ calls' \in Seq(CallRecord) /\ calls' # <<>> /\ Len(calls') = m
        /\ calls'[m].at = place /\ calls'[m].str = Top.str /\ calls'[m].rest = Top.rest
    BY GoToRecord DEF GoTo
  <2>2. m = 1
    BY <1>1
  <2> HIDE DEF m
  <2> QED BY <2>1, <2>2
<1>3. Top' = calls'[1]
  BY <1>2 DEF Top
<1> QED BY <1>1, <1>2, <1>3 DEF OneCall, Showing, Pending

(* A call that is over. *)
LEMMA DoneTop ==
  ASSUME CallsInv, calls # <<>>, OneCall, Done
  PROVE  calls' = <<>> /\ OneCall' /\ Showing' /\ Pending' = <<>>
<1>1. Len(calls) = 1 /\ Top.rest = <<>>
  BY DEF OneCall
<1>2. calls' \in Seq(CallRecord) /\ Len(calls') = 0
  BY <1>1, DoneRecord
<1>3. calls' = <<>>
  BY <1>2, EmptySeq
<1> QED BY <1>3 DEF OneCall, Showing, Pending

LEMMA WriteScreenKeptInv ==
  ASSUME CallsInv, KeptInv, WriteScreen
  PROVE  KeptInv'
<1> SUFFICES ASSUME ~refused' PROVE KeptInv'
  BY DEF KeptInv
<1> DEFINE w == written \o Top.str
           m == Len(Top.str)
<1>1. /\ ~refused /\ ~corrupt /\ written \in Seq(Char) /\ since \in Nat /\ OneCall
      /\ calls # <<>> /\ Top.at = "screen" /\ written' = w
      /\ UNCHANGED <<early, log_buffer, log_offset, log_size, refused, corrupt, since>>
      /\ IF early THEN Done ELSE GoTo("size") /\ BufferInv
  BY DEF WriteScreen, logVars, KeptInv
<1>2. Top.str \in Seq(Char) /\ m \in Nat /\ log_offset \in Nat /\ log_size \in Nat
  BY <1>1, TopRecord DEF CallsInv
<1>3. w \in Seq(Char)
  BY <1>1, <1>2, ConcatProperties
<1> HIDE DEF w
<1>4. CASE early
  <2>1. OneCall' /\ Showing'
    BY <1>1, <1>4, DoneTop
  <2> QED BY <1>1, <1>3, <1>4, <2>1 DEF KeptInv
<1>5. CASE ~early
  <2>1. Pending = <<>> /\ Len(Pending) = 0
    BY <1>1 DEF Pending, Showing
  <2> DEFINE n == Len(written)
  <2>2. n \in Nat /\ since + log_offset = n
    <3>1. n \in Nat
      BY <1>1, LenProperties
    <3>2. since + log_offset + Len(Pending) = n
      BY <1>1, <1>5 DEF BufferInv
    <3> HIDE DEF n
    <3> QED BY <1>1, <1>2, <2>1, <3>1, <3>2
  <2>3. /\ Len(w) = n + m
        /\ \A k \in 1 .. m : w[since + log_offset + k] = Top.str[k]
        /\ \A k \in 0 .. log_offset - 1 : w[since + k + 1] = written[since + k + 1]
    BY <1>1, <1>2, <2>2, Extended DEF w
  <2>4. /\ calls' # <<>> /\ Top'.at = "size" /\ OneCall' /\ Pending' = Top.str
    BY <1>1, <1>5, GoToTop
  <2>5. Len(Pending') = m
    BY <2>4
  <2> HIDE DEF n, m
  <2>6. since' + log_offset' + Len(Pending') = Len(written')
    BY <1>1, <1>2, <2>2, <2>3, <2>5
  <2>7. \A k \in 1 .. Len(Pending') : written'[since' + log_offset' + k] = Pending'[k]
    BY <1>1, <2>3, <2>4, <2>5
  <2>8. \A k \in 0 .. log_offset' - 1 : log_buffer'[k] = written'[since' + k + 1]
    BY <1>1, <1>5, <2>3 DEF BufferInv
  <2>9. BufferInv'
    BY <1>1, <1>5, <2>4, <2>6, <2>7, <2>8 DEF BufferInv
  <2> QED BY <1>1, <1>3, <1>5, <2>4, <2>9 DEF KeptInv
<1> QED BY <1>4, <1>5

LEMMA GrowKeptInv ==
  ASSUME CallsInv, KeptInv, Grow
  PROVE  KeptInv'
<1> SUFFICES ASSUME ~refused' PROVE KeptInv'
  BY DEF KeptInv
<1> DEFINE m == Len(Top.str)
           need == log_offset + m
<1>1. /\ ~refused /\ ~corrupt /\ written \in Seq(Char) /\ since \in Nat /\ OneCall
      /\ calls # <<>> /\ Top.at = "size" /\ ~early /\ BufferInv
      /\ UNCHANGED <<early, log_buffer, log_offset, refused, corrupt, written, since>>
  BY DEF Grow, KeptInv, Showing
<1>2. m \in Nat /\ log_offset \in Nat /\ log_size \in Nat /\ need \in Nat
  BY <1>1, TopRecord DEF CallsInv
<1>3. Pending = Top.str
  BY <1>1 DEF Pending, Showing
<1>4. CASE log_size < need
  <2> DEFINE size == NewSize(need)
  <2>1. size \in Nat /\ size >= need + AllocSize
    BY <1>2, NewSizeRoom
  <2>2. log_size' = size /\ GoTo("realloc")
    BY <1>4 DEF Grow
  <2> HIDE DEF size
  <2>3. calls' # <<>> /\ Top'.at = "realloc" /\ OneCall' /\ Pending' = Pending
    BY <1>1, <1>3, <2>2, GoToTop
  <2>4. log_offset <= size
    BY <1>2, <2>1, Constants
  <2>5. 0 .. log_offset - 1 \subseteq DOMAIN log_buffer
    BY <1>1, <1>2 DEF BufferInv
  <2>6. BufferInv'
    BY <1>1, <2>2, <2>3, <2>4, <2>5 DEF BufferInv
  <2> QED BY <1>1, <2>3, <2>6 DEF KeptInv
<1>5. CASE ~(log_size < need)
  <2>1. log_size' = log_size /\ GoTo("store")
    BY <1>5 DEF Grow
  <2>2. /\ calls' # <<>> /\ Top'.at = "store" /\ OneCall' /\ Pending' = Pending
        /\ Top'.str = Top.str
    BY <1>1, <1>3, <2>1, GoToTop
  <2>3. need <= log_size
    BY <1>2, <1>5
  <2>4. BufferInv'
    BY <1>1, <2>1, <2>2, <2>3 DEF BufferInv
  <2> QED BY <1>1, <2>2, <2>4 DEF KeptInv
<1> QED BY <1>4, <1>5

LEMMA GrantedKeptInv ==
  ASSUME CallsInv, KeptInv, Granted
  PROVE  KeptInv'
<1> SUFFICES ASSUME ~refused' PROVE KeptInv'
  BY DEF KeptInv
<1> DEFINE m == Len(Top.str)
           new == Bytes(log_size, log_buffer)
<1>1. /\ ~refused /\ ~corrupt /\ written \in Seq(Char) /\ since \in Nat /\ OneCall
      /\ calls # <<>> /\ Top.at = "realloc" /\ ~early /\ BufferInv
      /\ GoTo("store") /\ log_buffer' = new
      /\ UNCHANGED <<early, log_offset, log_size, refused, corrupt, written, since>>
  BY DEF Granted, KeptInv, Showing
<1>2. m \in Nat /\ log_offset \in Nat /\ log_size \in Nat
  BY <1>1, TopRecord DEF CallsInv
<1>3. log_offset + m <= log_size
  <2> DEFINE c == Len(Complaint)
  <2>1. log_size >= log_offset + m + c /\ c \in Nat
    BY <1>1, Constants DEF CallsInv
  <2> HIDE DEF m, c
  <2> QED BY <1>2, <2>1
<1>4. Pending = Top.str
  BY <1>1 DEF Pending, Showing
<1>5. /\ calls' # <<>> /\ Top'.at = "store" /\ OneCall' /\ Pending' = Pending
      /\ Top'.str = Top.str
  BY <1>1, <1>4, GoToTop
<1>6. DOMAIN new = 0 .. log_size - 1
  BY DEF Bytes
<1>7. \A k \in 0 .. log_offset - 1 : new[k] = log_buffer[k]
  BY <1>1, <1>2 DEF Bytes, BufferInv
<1> HIDE DEF new
<1>8. \A k \in 0 .. log_offset - 1 : log_buffer'[k] = written[since + k + 1]
  BY <1>1, <1>7 DEF BufferInv
<1>9. BufferInv'
  BY <1>1, <1>3, <1>5, <1>6, <1>8 DEF BufferInv
<1> QED BY <1>1, <1>5, <1>9 DEF KeptInv

LEMMA StoreKeptInv ==
  ASSUME CallsInv, KeptInv, Store
  PROVE  KeptInv'
<1> SUFFICES ASSUME ~refused' PROVE KeptInv'
  BY DEF KeptInv
<1> DEFINE m == Len(Top.str)
           new == [k \in DOMAIN log_buffer |->
                    IF k \in log_offset .. log_offset + m - 1
                      THEN Top.str[k - log_offset + 1] ELSE log_buffer[k]]
<1>1. /\ ~refused /\ ~corrupt /\ written \in Seq(Char) /\ since \in Nat /\ OneCall
      /\ calls # <<>> /\ Top.at = "store" /\ ~early /\ BufferInv
      /\ log_buffer' = new /\ log_offset' = log_offset + m
      /\ UNCHANGED <<early, log_size, refused, written, since>>
  BY DEF Store, Target, KeptInv, Showing
<1>2. m \in Nat /\ log_offset \in Nat /\ log_size \in Nat
  BY <1>1, TopRecord DEF CallsInv
<1>3. Pending = Top.str
  BY <1>1 DEF Pending, Showing
<1>4. /\ log_offset + m <= log_size /\ DOMAIN log_buffer = 0 .. log_size - 1
      /\ \A k \in 0 .. log_offset - 1 : log_buffer[k] = written[since + k + 1]
      /\ \A k \in 1 .. m : written[since + log_offset + k] = Top.str[k]
  BY <1>1, <1>3 DEF BufferInv
<1>5. /\ DOMAIN new = 0 .. log_size - 1
      /\ log_offset .. log_offset + m - 1 \subseteq DOMAIN log_buffer
      /\ \A k \in 0 .. log_offset + m - 1 : new[k] = written[since + k + 1]
  <2> DEFINE str == Top.str
  <2> HIDE DEF m, str
  <2>1. \A k \in 1 .. m : written[since + log_offset + k] = str[k]
    BY <1>4 DEF str
  <2>2. new = [k \in DOMAIN log_buffer |->
                IF k \in log_offset .. log_offset + m - 1
                  THEN str[k - log_offset + 1] ELSE log_buffer[k]]
    BY DEF str
  <2> HIDE DEF new
  <2> QED BY <1>1, <1>2, <1>4, <2>1, <2>2, Stored
<1>6. ~corrupt'
  BY <1>5 DEF Store, Target
<1>7. Done
  BY <1>6 DEF Store
<1>8. calls' = <<>> /\ OneCall' /\ Showing' /\ Pending' = <<>>
  BY <1>1, <1>7, DoneTop
<1>9. since + log_offset + m = Len(written)
  BY <1>1, <1>3 DEF BufferInv
<1> DEFINE off == log_offset + m
<1>10. /\ off \in Nat /\ off <= log_size /\ log_offset' = off /\ since + off = Len(written)
       /\ \A k \in 0 .. off - 1 : new[k] = written[since + k + 1]
  <2> HIDE DEF m, new
  <2>1. since + off = since + log_offset + m
    BY <1>1, <1>2
  <2> QED BY <1>1, <1>2, <1>4, <1>5, <1>9, <2>1
<1>11. Len(Pending') = 0
  BY <1>8
<1> HIDE DEF new, off
<1>12. BufferInv'
  BY <1>1, <1>5, <1>8, <1>10, <1>11 DEF BufferInv
<1> QED BY <1>1, <1>6, <1>8, <1>12 DEF KeptInv

LEMMA StepKeptInv == CallsInv /\ KeptInv /\ [Next]_vars => KeptInv'
<1> SUFFICES ASSUME CallsInv, KeptInv, [Next]_vars PROVE KeptInv'
  OBVIOUS
<1>1. CASE UNCHANGED vars
  BY <1>1 DEF vars, logVars, KeptInv, OneCall, Showing, BufferInv, Pending, Top
<1>2. CASE Refused
  BY <1>2 DEF Refused, KeptInv
<1>3. CASE ReturnNull
  BY <1>3 DEF ReturnNull, KeptInv, OneCall
<1> QED BY <1>1, <1>2, <1>3, LogInitKeptInv, LogKeptInv, WriteScreenKeptInv,
        GrowKeptInv, GrantedKeptInv, StoreKeptInv DEF Next

(* Until memory is refused, what log_write has returned from is in the     *)
(* buffer from its start on, whatever was logged before log_init and       *)
(* however often the buffer has moved; no store misses the allocation.     *)
THEOREM Kept == Spec => []LogKept
<1>1. CallsInv /\ KeptInv => LogKept
  <2> SUFFICES ASSUME CallsInv, KeptInv, ~refused PROVE LogKept
    BY DEF LogKept
  <2>1. ~corrupt
    BY DEF KeptInv
  <2>2. ASSUME ~early, calls = <<>>
        PROVE  /\ log_offset = Len(written) - since
               /\ 0 .. log_offset - 1 \subseteq DOMAIN log_buffer
               /\ \A k \in 0 .. log_offset - 1 : log_buffer[k] = written[since + k + 1]
    <3> DEFINE m == Len(written)
    <3>1. /\ log_offset \in Nat /\ log_size \in Nat /\ since \in Nat
          /\ written \in Seq(Char) /\ BufferInv
      BY <2>2 DEF CallsInv, KeptInv
    <3>2. m \in Nat
      BY <3>1, LenProperties
    <3>3. Len(Pending) = 0 /\ since + log_offset + Len(Pending) = m
      BY <2>2, <3>1 DEF Pending, Showing, BufferInv
    <3> HIDE DEF m
    <3>4. log_offset = m - since
      BY <3>1, <3>2, <3>3
    <3>5. 0 .. log_offset - 1 \subseteq DOMAIN log_buffer
      BY <2>2, <3>1 DEF BufferInv
    <3> QED BY <3>1, <3>4, <3>5 DEF BufferInv, m
  <2> QED BY <2>1, <2>2 DEF LogKept
<1> QED BY <1>1, InitCallsInv, StepCallsInv, InitKeptInv, StepKeptInv, PTL DEF Spec

-----------------------------------------------------------------------------
(* The screen. text_write and text_scroll are folds over sequences. FoldLeft *)
(* chooses a function on sets of indices, so each proof here first shows  *)
(* that there is one, and then follows it along 1 .. k for every k. What  *)
(* induction would give comes from the least k that is wrong.              *)

LEMMA Least ==
  ASSUME NEW S \in SUBSET Nat, S # {}
  PROVE  \E m \in S : \A k \in S : m <= k
<1> DEFINE T == {0 .. m - 1 : m \in S}
<1>1. IsWellFoundedOn(StrictSubsetOrdering(Nat), FiniteSubsetsOf(Nat))
  BY FS_StrictSubsetOrderingWellFounded
<1>2. T \subseteq FiniteSubsetsOf(Nat) /\ T # {}
  <2>1. ASSUME NEW m \in S PROVE 0 .. m - 1 \in FiniteSubsetsOf(Nat)
    <3>1. IsFiniteSet(0 .. m - 1)
      BY FS_Interval
    <3> QED BY <3>1 DEF FiniteSubsetsOf
  <2> QED BY <2>1
<1>3. \E x \in T : \A y \in T : ~(<<y, x>> \in StrictSubsetOrdering(Nat))
  <2> HIDE DEF T
  <2> QED BY <1>1, <1>2, WFMin
<1>4. PICK m \in S : \A k \in S : ~(<<0 .. k - 1, 0 .. m - 1>> \in StrictSubsetOrdering(Nat))
  BY <1>3
<1>5. ASSUME NEW k \in S, k < m PROVE FALSE
  <2>1. (0 .. k - 1) \subseteq (0 .. m - 1) /\ (0 .. k - 1) # (0 .. m - 1)
    <3>1. k \in 0 .. m - 1 /\ k \notin 0 .. k - 1
      BY <1>5
    <3> QED BY <1>5, <3>1
  <2>2. (0 .. k - 1) \in SUBSET Nat /\ (0 .. m - 1) \in SUBSET Nat
    <3>1. \A a \in Int : (0 .. a) \in SUBSET Nat
      OBVIOUS
    <3>2. k - 1 \in Int /\ m - 1 \in Int
      OBVIOUS
    <3> QED BY <3>1, <3>2
  <2>3. ASSUME NEW a \in SUBSET Nat, NEW b \in SUBSET Nat, a \subseteq b, a # b
        PROVE  <<a, b>> \in StrictSubsetOrdering(Nat)
    BY <2>3 DEF StrictSubsetOrdering
  <2>4. <<0 .. k - 1, 0 .. m - 1>> \in StrictSubsetOrdering(Nat)
    BY <2>1, <2>2, <2>3
  <2> QED BY <1>4, <2>4
<1> QED BY <1>5

LEMMA Greatest ==
  ASSUME NEW S \in SUBSET Nat, S # {}, NEW n \in Nat, \A k \in S : k <= n
  PROVE  \E m \in S : \A k \in S : k <= m
<1> DEFINE T == {n - k : k \in S}
<1>1. T \in SUBSET Nat /\ T # {}
  <2>1. \A k \in S : n - k \in Nat
    OBVIOUS
  <2> QED BY <2>1
<1>2. PICK t \in T : \A u \in T : t <= u
  <2> HIDE DEF T
  <2> QED BY <1>1, Least
<1>3. PICK m \in S : t = n - m
  OBVIOUS
<1>4. ASSUME NEW k \in S PROVE k <= m
  <2>1. n - k \in T /\ n - m <= n - k
    BY <1>2, <1>3
  <2>2. k \in Nat /\ m \in Nat
    OBVIOUS
  <2> QED BY <2>1, <2>2
<1> QED BY <1>4

(* Folds over sequences. FoldLeft goes over the sets of indices by their   *)
(* greatest elements; along 1 .. k it is a run that takes one element of   *)
(* the sequence after the other.                                           *)

LEMMA GreatestIndex ==
  ASSUME NEW n \in Nat, NEW S \in SUBSET (1 .. n), S # {}
  PROVE  Max(S) \in S /\ \A k \in S : k <= Max(S)
<1>1. S \in SUBSET Nat /\ \A k \in S : k <= n
  OBVIOUS
<1>2. \E m \in S : \A k \in S : k <= m
  BY <1>1, Greatest
<1>3. \E m \in S : \A k \in S : m >= k
  BY <1>1, <1>2
<1>4. Max(S) \in S /\ \A k \in S : Max(S) >= k
  BY <1>3 DEF Max
<1> QED BY <1>1, <1>4

LEMMA LastIndex ==
  ASSUME NEW n \in Nat, NEW S \in SUBSET (1 .. n), NEW m \in S, \A k \in S : k <= m
  PROVE  Max(S) = m
<1>1. Max(S) \in S /\ \A k \in S : k <= Max(S)
  BY GreatestIndex
<1>2. m <= Max(S) /\ Max(S) <= m
  BY <1>1
<1>3. \A k \in S : k \in Nat
  OBVIOUS
<1>4. Max(S) \in Nat /\ m \in Nat
  BY <1>1, <1>3
<1> QED BY <1>2, <1>4

(* A fold over the first m elements, by the step H.                        *)
IsFold(f, m, V, H, base, s) ==
  /\ f \in [SUBSET (1 .. m) -> V]
  /\ \A S \in SUBSET (1 .. m) :
       f[S] = IF S = {} THEN base ELSE H[<<f[S \ {Max(S)}], s[Max(S)]>>]

LEMMA FoldExists ==
  ASSUME NEW V, NEW E, NEW H, \A v \in V, e \in E : H[<<v, e>>] \in V,
         NEW base \in V, NEW n \in Nat, NEW s, \A k \in 1 .. n : s[k] \in E
  PROVE  \E f : IsFold(f, n, V, H, base, s)
<1> DEFINE Bad == {m \in 0 .. n : ~\E f : IsFold(f, m, V, H, base, s)}
<1>1. ASSUME Bad # {} PROVE FALSE
  <2>1. Bad \in SUBSET Nat
    OBVIOUS
  <2>2. PICK m \in Bad : \A k \in Bad : m <= k
    <3> HIDE DEF Bad
    <3> QED BY <1>1, <2>1, Least
  <2>3. m \in 0 .. n /\ m \in Nat /\ ~\E f : IsFold(f, m, V, H, base, s)
    OBVIOUS
  <2>4. CASE m = 0
    <3> DEFINE f == [S \in SUBSET (1 .. 0) |-> base]
    <3>1. 1 .. 0 = {}
      OBVIOUS
    <3>2. \A S \in SUBSET (1 .. 0) : S = {} /\ f[S] = base
      BY <3>1
    <3>3. f \in [SUBSET (1 .. 0) -> V]
      OBVIOUS
    <3> HIDE DEF f
    <3>4. IsFold(f, 0, V, H, base, s)
      BY <3>2, <3>3 DEF IsFold
    <3> QED BY <2>3, <2>4, <3>4
  <2>5. CASE m # 0
    <3>1. m - 1 \in 0 .. n /\ m - 1 < m /\ m \in 1 .. n
      BY <2>3, <2>5
    <3>2. PICK g : IsFold(g, m - 1, V, H, base, s)
      BY <2>2, <2>3, <3>1
    <3> DEFINE f == [S \in SUBSET (1 .. m) |->
                       IF m \in S THEN H[<<g[S \ {m}], s[m]>>] ELSE g[S]]
    <3>3. \A S \in SUBSET (1 .. m) :
            /\ S \ {m} \in SUBSET (1 .. m - 1)
            /\ m \notin S => S \in SUBSET (1 .. m - 1)
      <4>1. \A k \in 1 .. m : k # m => k \in 1 .. m - 1
        BY <2>3
      <4> QED BY <4>1
    <3>4. \A S \in SUBSET (1 .. m - 1) : S \in SUBSET (1 .. m) /\ m \notin S
      <4>1. \A k \in 1 .. m - 1 : k \in 1 .. m /\ k # m
        BY <2>3
      <4> QED BY <4>1
    <3>5. \A S \in SUBSET (1 .. m - 1) : g[S] \in V
      BY <3>2 DEF IsFold
    <3>6. f \in [SUBSET (1 .. m) -> V]
      <4>1. ASSUME NEW S \in SUBSET (1 .. m)
            PROVE  (IF m \in S THEN H[<<g[S \ {m}], s[m]>>] ELSE g[S]) \in V
        BY <3>1, <3>3, <3>5
      <4> QED BY <4>1
    <3>7. ASSUME NEW S \in SUBSET (1 .. m)
          PROVE  f[S] = IF S = {} THEN base ELSE H[<<f[S \ {Max(S)}], s[Max(S)]>>]
      <4>1. CASE m \in S
        <5>1. Max(S) = m
          <6>1. \A k \in S : k <= m
            <7>1. \A k \in S : k \in 1 .. m
              OBVIOUS
            <7> QED BY <2>3, <7>1
          <6> QED BY <2>3, <4>1, <6>1, LastIndex
        <5>2. S \ {m} \in SUBSET (1 .. m - 1)
          BY <3>3
        <5>3. f[S \ {m}] = g[S \ {m}]
          BY <3>4, <5>2
        <5>4. f[S] = H[<<g[S \ {m}], s[m]>>]
          BY <4>1
        <5> QED BY <4>1, <5>1, <5>3, <5>4
      <4>2. CASE m \notin S
        <5>1. S \in SUBSET (1 .. m - 1) /\ f[S] = g[S]
          BY <3>3, <4>2
        <5>2. g[S] = IF S = {} THEN base ELSE H[<<g[S \ {Max(S)}], s[Max(S)]>>]
          BY <3>2, <5>1 DEF IsFold
        <5>3. S \ {Max(S)} \in SUBSET (1 .. m - 1)
          BY <5>1
        <5>4. f[S \ {Max(S)}] = g[S \ {Max(S)}]
          BY <3>4, <5>3
        <5> QED BY <5>1, <5>2, <5>4
      <4> QED BY <4>1, <4>2
    <3> HIDE DEF f
    <3>8. IsFold(f, m, V, H, base, s)
      BY <3>6, <3>7 DEF IsFold
    <3> QED BY <2>3, <3>8
  <2> QED BY <2>4, <2>5
<1>2. n \in 0 .. n
  OBVIOUS
<1> QED BY <1>1, <1>2

(* What the fold has come to after k elements.                             *)
IsRun(g, n, V, H, base, s) ==
  /\ g \in [0 .. n -> V] /\ g[0] = base
  /\ \A k \in 1 .. n : g[k] = H[<<g[k - 1], s[k]>>]

(* What is known of the fold that FoldLeft chooses. *)
IsChosen(f, n, V, H, base, s) ==
  /\ f[{}] = base /\ base \in V
  /\ \A v \in V, k \in 1 .. n : H[<<v, s[k]>>] \in V
  /\ \A S \in SUBSET (1 .. n) :
       S # {} /\ f[S \ {Max(S)}] \in V => f[S] = H[<<f[S \ {Max(S)}], s[Max(S)]>>]

LEMMA FoldRuns ==
  ASSUME NEW V, NEW H, NEW base, NEW n \in Nat, NEW s, NEW f, IsChosen(f, n, V, H, base, s)
  PROVE  \E g : IsRun(g, n, V, H, base, s) /\ g[n] = f[1 .. n]
<1>1. ASSUME NEW k \in 1 .. n, f[1 .. k - 1] \in V
      PROVE  f[1 .. k] = H[<<f[1 .. k - 1], s[k]>>] /\ f[1 .. k] \in V
  <2>1. 1 .. k \in SUBSET (1 .. n) /\ k \in 1 .. k /\ \A j \in 1 .. k : j <= k
    OBVIOUS
  <2>2. Max(1 .. k) = k
    BY <2>1, LastIndex
  <2>3. (1 .. k) \ {k} = 1 .. k - 1
    OBVIOUS
  <2>4. f[(1 .. k) \ {Max(1 .. k)}] \in V /\ 1 .. k # {}
    BY <1>1, <2>1, <2>2, <2>3
  <2>5. f[1 .. k] = H[<<f[1 .. k - 1], s[k]>>]
    BY <2>1, <2>2, <2>3, <2>4 DEF IsChosen
  <2> QED BY <1>1, <2>5 DEF IsChosen
<1> DEFINE Bad == {m \in 0 .. n : f[1 .. m] \notin V}
<1>2. ASSUME Bad # {} PROVE FALSE
  <2>1. Bad \in SUBSET Nat
    OBVIOUS
  <2>2. PICK m \in Bad : \A k \in Bad : m <= k
    <3> HIDE DEF Bad
    <3> QED BY <1>2, <2>1, Least
  <2>3. 1 .. 0 = {}
    OBVIOUS
  <2>4. m # 0
    BY <2>2, <2>3 DEF IsChosen
  <2>5. m - 1 \in 0 .. n /\ m \in 1 .. n /\ m - 1 < m
    BY <2>2, <2>4
  <2>6. f[1 .. m - 1] \in V
    BY <2>2, <2>5
  <2> QED BY <1>1, <2>2, <2>5, <2>6
<1> DEFINE g == [k \in 0 .. n |-> f[1 .. k]]
<1>3. g \in [0 .. n -> V]
  BY <1>2
<1>4. g[0] = base
  <2>1. 1 .. 0 = {}
    OBVIOUS
  <2> QED BY <2>1 DEF IsChosen
<1>5. ASSUME NEW k \in 1 .. n PROVE g[k] = H[<<g[k - 1], s[k]>>]
  <2>1. k - 1 \in 0 .. n /\ k \in 0 .. n
    OBVIOUS
  <2>2. f[1 .. k - 1] \in V
    BY <1>2, <2>1
  <2> QED BY <1>1, <2>1, <2>2
<1>6. g[n] = f[1 .. n]
  OBVIOUS
<1> HIDE DEF g
<1>7. IsRun(g, n, V, H, base, s)
  BY <1>3, <1>4, <1>5 DEF IsRun
<1> QED BY <1>6, <1>7

LEMMA LengthIs ==
  ASSUME NEW S, NEW n \in Nat, NEW s \in [1 .. n -> S]
  PROVE  s \in Seq(S) /\ Len(s) = n
<1>1. s \in Seq(S) /\ DOMAIN s = 1 .. n
  OBVIOUS
<1>2. Len(s) \in Nat /\ DOMAIN s = 1 .. Len(s)
  BY <1>1, LenProperties
<1> QED BY <1>1, <1>2

LEMMA Repeats ==
  ASSUME NEW cell, NEW C, cell \in C, NEW n \in Nat
  PROVE  /\ Repeated(cell, n) \in Seq(C) /\ Len(Repeated(cell, n)) = n
         /\ \A k \in 1 .. n : Repeated(cell, n)[k] = cell
<1> DEFINE V == Seq({cell})
           E == 1 .. n
           H == [p \in V \X E |-> Append(p[1], cell)]
           s == [j \in 1 .. n |-> j]
           f == CHOOSE f : f = [S \in SUBSET DOMAIN s |->
                  IF S = {} THEN <<>> ELSE Append(f[S \ {Max(S)}], cell)]
<1>1. DOMAIN s = 1 .. n /\ \A k \in 1 .. n : s[k] \in E
  OBVIOUS
<1>2. Repeated(cell, n) = f[DOMAIN s]
  BY DEF Repeated, FoldLeft, MapThenFoldSet
<1>3. ASSUME NEW v \in V, NEW e \in E
      PROVE  H[<<v, e>>] = Append(v, cell) /\ H[<<v, e>>] \in V
  <2>1. Append(v, cell) \in V
    BY AppendProperties
  <2> QED BY <2>1
<1>4. <<>> \in V
  OBVIOUS
<1> HIDE DEF V, E, H, s, f
<1>5. \E ff : ff = [S \in SUBSET DOMAIN s |->
        IF S = {} THEN <<>> ELSE Append(ff[S \ {Max(S)}], cell)]
  <2>1. PICK ff : IsFold(ff, n, V, H, <<>>, s)
    BY <1>1, <1>3, <1>4, FoldExists
  <2>2. ASSUME NEW S \in SUBSET (1 .. n), S # {}
        PROVE  ff[S] = Append(ff[S \ {Max(S)}], cell)
    <3>1. Max(S) \in 1 .. n
      BY <2>2, GreatestIndex
    <3>2. s[Max(S)] \in E /\ ff[S \ {Max(S)}] \in V
      BY <1>1, <2>1, <3>1 DEF IsFold
    <3>3. ff[S] = H[<<ff[S \ {Max(S)}], s[Max(S)]>>]
      BY <2>1, <2>2 DEF IsFold
    <3> QED BY <1>3, <3>2, <3>3
  <2>3. ff = [S \in SUBSET (1 .. n) |-> ff[S]] /\ ff[{}] = <<>>
    BY <2>1 DEF IsFold
  <2> QED BY <1>1, <2>2, <2>3
<1>6. f = [S \in SUBSET (1 .. n) |->
        IF S = {} THEN <<>> ELSE Append(f[S \ {Max(S)}], cell)]
  BY <1>1, <1>5 DEF f
<1>7. IsChosen(f, n, V, H, <<>>, s)
  <2>1. f[{}] = <<>>
    BY <1>6
  <2>2. ASSUME NEW S \in SUBSET (1 .. n), S # {}, f[S \ {Max(S)}] \in V
        PROVE  f[S] = H[<<f[S \ {Max(S)}], s[Max(S)]>>]
    <3>1. Max(S) \in 1 .. n
      BY <2>2, GreatestIndex
    <3>2. f[S] = Append(f[S \ {Max(S)}], cell)
      BY <1>6, <2>2
    <3> QED BY <1>1, <1>3, <2>2, <3>1, <3>2
  <2>3. \A v \in V, k \in 1 .. n : H[<<v, s[k]>>] \in V
    BY <1>1, <1>3
  <2> QED BY <1>4, <2>1, <2>2, <2>3 DEF IsChosen
<1>8. PICK g : IsRun(g, n, V, H, <<>>, s) /\ g[n] = f[1 .. n]
  BY <1>7, FoldRuns
<1>9. g \in [0 .. n -> V] /\ g[0] = <<>>
  BY <1>8 DEF IsRun
<1>10. ASSUME NEW k \in 1 .. n PROVE Len(g[k]) = Len(g[k - 1]) + 1
  <2>1. g[k - 1] \in V /\ g[k] = H[<<g[k - 1], s[k]>>]
    BY <1>8 DEF IsRun
  <2>2. g[k] = Append(g[k - 1], cell)
    BY <1>1, <1>3, <2>1
  <2> QED BY <2>1, <2>2, AppendProperties DEF V
<1> DEFINE Bad == {k \in 0 .. n : Len(g[k]) # k}
<1>11. ASSUME Bad # {} PROVE FALSE
  <2>1. Bad \in SUBSET Nat
    OBVIOUS
  <2>2. PICK m \in Bad : \A k \in Bad : m <= k
    <3> HIDE DEF Bad
    <3> QED BY <1>11, <2>1, Least
  <2>3. m # 0
    BY <1>9, <2>2
  <2>4. m - 1 \in 0 .. n /\ m \in 1 .. n /\ m - 1 < m
    BY <2>2, <2>3
  <2>5. Len(g[m - 1]) = m - 1
    BY <2>2, <2>4
  <2>6. Len(g[m]) = m
    BY <1>10, <2>4, <2>5
  <2> QED BY <2>2, <2>6
<1>12. Repeated(cell, n) \in Seq({cell}) /\ Len(Repeated(cell, n)) = n
  <2>1. n \in 0 .. n
    OBVIOUS
  <2>2. g[n] \in V /\ Len(g[n]) = n
    BY <1>9, <1>11, <2>1
  <2> QED BY <1>1, <1>2, <1>8, <2>2 DEF V
<1> DEFINE r == Repeated(cell, n)
<1> HIDE DEF r, Bad
<1>13. r \in [1 .. n -> {cell}]
  BY <1>12, LenProperties DEF r
<1>14. r \in [1 .. n -> C] /\ \A k \in 1 .. n : r[k] = cell
  BY <1>13
<1>15. r \in Seq(C)
  BY <1>14, LengthIs
<1> QED BY <1>12, <1>14, <1>15 DEF r

-----------------------------------------------------------------------------
CellValue == {Blank, Firmware} \cup {Ink(c) : c \in Char}

TextState == [screen : [Cells -> CellValue], x : 0 .. Width, y : 0 .. Height - 1]

SheetState == [cells : Seq(CellValue), row : Nat, col : 0 .. Width]

LEMMA Lengths ==
  ASSUME NEW a \in Nat, NEW b \in Nat
  PROVE  /\ Width * a \in Nat /\ Width * b \in Nat /\ a * Width = Width * a
         /\ Width * (a + b) = Width * a + Width * b
         /\ a <= b => Width * a <= Width * b
         /\ a < b => Width * a + Width <= Width * b
<1>1. Width \in Nat
  BY TextAssumption
<1>2. \A c \in Nat : Width * c \in Nat
  BY <1>1
<1>3. ASSUME a <= b PROVE Width * a <= Width * b
  <2>1. PICK d \in Nat : b = a + d
    <3>1. b - a \in Nat /\ b = a + (b - a)
      BY <1>3
    <3> QED BY <3>1
  <2>2. Width * b = Width * a + Width * d
    BY <1>1, <2>1
  <2> QED BY <1>2, <2>2
<1>4. ASSUME a < b PROVE Width * a + Width <= Width * b
  <2>1. PICK d \in Nat : b = a + 1 + d
    <3>1. b - (a + 1) \in Nat /\ b = a + 1 + (b - (a + 1))
      BY <1>4
    <3> QED BY <3>1
  <2>2. Width * b = Width * a + Width + Width * d
    BY <1>1, <2>1
  <2> QED BY <1>1, <1>2, <2>2
<1>5. a * Width = Width * a /\ Width * (a + b) = Width * a + Width * b
  BY <1>1
<1> QED BY <1>2, <1>3, <1>4, <1>5

(* The cells of the screen but for its last line. *)
Above == Width * (Height - 1)

LEMMA ScreenSize ==
  /\ Width \in Nat \ {0} /\ Height \in Nat \ {0} /\ Height - 1 \in Nat
  /\ Above \in Nat /\ Width * Height = Above + Width
  /\ Cells = 0 .. Above + Width - 1
<1>1. Width \in Nat \ {0} /\ Height \in Nat \ {0} /\ Height - 1 \in Nat
  BY TextAssumption
<1>2. Above \in Nat
  BY <1>1, Lengths DEF Above
<1>3. Width * Height = Above + Width
  BY <1>1 DEF Above
<1> QED BY <1>1, <1>2, <1>3 DEF Cells

(* memmove copies every cell before it is overwritten. *)
MovedTo(s0) ==
  (CHOOSE f : f = [S \in SUBSET DOMAIN [k \in 1 .. Above |-> k - 1] |->
     IF S = {} THEN s0
     ELSE [f[S \ {Max(S)}] EXCEPT
             ![[k \in 1 .. Above |-> k - 1][Max(S)]] =
                f[S \ {Max(S)}][[k \in 1 .. Above |-> k - 1][Max(S)] + Width]]])
    [DOMAIN [k \in 1 .. Above |-> k - 1]]

LEMMA ScrollMoves ==
  ASSUME NEW t
  PROVE  Scroll(t) = [t EXCEPT !.screen = [k \in Cells |-> IF k < Above THEN MovedTo(t.screen)[k] ELSE Blank]]
BY DEF Scroll, Above, MovedTo, FoldLeft, MapThenFoldSet

LEMMA Moved ==
  ASSUME NEW s0 \in [Cells -> CellValue]
  PROVE  \A k \in 0 .. Above - 1 : MovedTo(s0)[k] = s0[k + Width]
<1> DEFINE V == [Cells -> CellValue]
           E == 0 .. Above - 1
           H == [p \in V \X E |-> [p[1] EXCEPT ![p[2]] = p[1][p[2] + Width]]]
           s == [k \in 1 .. Above |-> k - 1]
<1>1. Above \in Nat /\ DOMAIN s = 1 .. Above /\ \A k \in 1 .. Above : s[k] = k - 1 /\ s[k] \in E
  BY ScreenSize
<1>2. \A e \in E : e \in Cells /\ e + Width \in Cells
  BY ScreenSize
<1>3. ASSUME NEW v \in V, NEW e \in E
      PROVE  /\ H[<<v, e>>] = [v EXCEPT ![e] = v[e + Width]]
             /\ H[<<v, e>>] \in V
  BY <1>2
<1> DEFINE f == CHOOSE f : f = [S \in SUBSET DOMAIN s |->
     IF S = {} THEN s0
     ELSE [f[S \ {Max(S)}] EXCEPT ![s[Max(S)]] = f[S \ {Max(S)}][s[Max(S)] + Width]]]
<1>4. MovedTo(s0) = f[1 .. Above]
  BY <1>1 DEF MovedTo
<1>5. \E ff : ff = [S \in SUBSET DOMAIN s |->
     IF S = {} THEN s0
     ELSE [ff[S \ {Max(S)}] EXCEPT ![s[Max(S)]] = ff[S \ {Max(S)}][s[Max(S)] + Width]]]
  <2> HIDE DEF V, E, H, s, f
  <2>1. PICK ff : IsFold(ff, Above, V, H, s0, s)
    BY <1>1, <1>3, FoldExists DEF V
  <2>2. ASSUME NEW S \in SUBSET (1 .. Above), S # {}
        PROVE  ff[S] = [ff[S \ {Max(S)}] EXCEPT ![s[Max(S)]] = ff[S \ {Max(S)}][s[Max(S)] + Width]]
    <3>1. Max(S) \in 1 .. Above
      BY <1>1, <2>2, GreatestIndex
    <3>2. s[Max(S)] \in E /\ ff[S \ {Max(S)}] \in V
      BY <1>1, <2>1, <3>1 DEF IsFold
    <3>3. ff[S] = H[<<ff[S \ {Max(S)}], s[Max(S)]>>]
      BY <2>1, <2>2 DEF IsFold
    <3> QED BY <1>3, <3>2, <3>3
  <2>3. ff = [S \in SUBSET (1 .. Above) |-> ff[S]]
    BY <2>1 DEF IsFold
  <2>4. ff[{}] = s0
    BY <2>1 DEF IsFold
  <2>5. ff = [S \in SUBSET DOMAIN s |->
     IF S = {} THEN s0
     ELSE [ff[S \ {Max(S)}] EXCEPT ![s[Max(S)]] = ff[S \ {Max(S)}][s[Max(S)] + Width]]]
    BY <1>1, <2>2, <2>3, <2>4
  <2> QED BY <2>5
<1>6. f = [S \in SUBSET (1 .. Above) |->
     IF S = {} THEN s0
     ELSE [f[S \ {Max(S)}] EXCEPT ![s[Max(S)]] = f[S \ {Max(S)}][s[Max(S)] + Width]]]
  <2> HIDE DEF s
  <2> QED BY <1>1, <1>5
<1>7. PICK g : IsRun(g, Above, V, H, s0, s) /\ g[Above] = f[1 .. Above]
  <2> HIDE DEF E, H, s, f
  <2>1. f[{}] = s0
    BY <1>6
  <2>2. ASSUME NEW S \in SUBSET (1 .. Above), S # {}, f[S \ {Max(S)}] \in V
        PROVE  f[S] = H[<<f[S \ {Max(S)}], s[Max(S)]>>]
    <3>1. Max(S) \in 1 .. Above
      BY <1>1, <2>2, GreatestIndex
    <3> HIDE DEF V
    <3>2. f[S] = [f[S \ {Max(S)}] EXCEPT ![s[Max(S)]] = f[S \ {Max(S)}][s[Max(S)] + Width]]
      BY <1>6, <2>2
    <3> QED BY <1>1, <1>3, <2>2, <3>1, <3>2
  <2>3. s0 \in V
    OBVIOUS
  <2> HIDE DEF V
  <2>4. \A v \in V, k \in 1 .. Above : H[<<v, s[k]>>] \in V
    BY <1>1, <1>3
  <2>5. \A S \in SUBSET (1 .. Above) :
          S # {} /\ f[S \ {Max(S)}] \in V => f[S] = H[<<f[S \ {Max(S)}], s[Max(S)]>>]
    BY <2>2
  <2>6. IsChosen(f, Above, V, H, s0, s)
    BY <2>1, <2>3, <2>4, <2>5 DEF IsChosen
  <2> QED BY <1>1, <2>6, FoldRuns
<1> HIDE DEF f
<1>8. g \in [0 .. Above -> V] /\ g[0] = s0
      /\ \A k \in 1 .. Above : g[k] = [g[k - 1] EXCEPT ![k - 1] = g[k - 1][k - 1 + Width]]
  <2>1. ASSUME NEW k \in 1 .. Above PROVE g[k] = [g[k - 1] EXCEPT ![k - 1] = g[k - 1][k - 1 + Width]]
    <3> HIDE DEF V, E, H, s
    <3>1. k - 1 \in 0 .. Above
      BY <1>1
    <3>2. g[k - 1] \in V /\ g[k] = H[<<g[k - 1], s[k]>>]
      BY <1>7, <3>1 DEF IsRun
    <3> QED BY <1>1, <1>3, <3>2
  <2> HIDE DEF V, E, H, s
  <2> QED BY <1>7, <2>1 DEF IsRun
<1> HIDE DEF H, s
<1> DEFINE Right(k) == \A c \in Cells : g[k][c] = IF c < k THEN s0[c + Width] ELSE s0[c]
           Bad == {k \in 0 .. Above : ~Right(k)}
<1>9. ASSUME Bad # {} PROVE FALSE
  <2>1. Bad \in SUBSET Nat
    OBVIOUS
  <2>2. PICK m \in Bad : \A k \in Bad : m <= k
    <3> HIDE DEF Bad
    <3> QED BY <1>9, <2>1, Least
  <2>3. m \in 0 .. Above /\ ~Right(m)
    OBVIOUS
  <2>4. m # 0
    <3>1. Right(0)
      BY <1>8, ScreenSize
    <3> HIDE DEF Right
    <3> QED BY <2>3, <3>1
  <2>5. m - 1 \in 0 .. Above /\ m \in 1 .. Above /\ m - 1 < m
    BY <1>1, <2>3, <2>4
  <2>6. Right(m - 1)
    <3> HIDE DEF Right
    <3> QED BY <2>2, <2>5
  <2>7. g[m - 1] \in V /\ g[m] = [g[m - 1] EXCEPT ![m - 1] = g[m - 1][m - 1 + Width]]
    <3> HIDE DEF V
    <3> QED BY <1>8, <2>5
  <2>8. ASSUME NEW c \in Cells
        PROVE  g[m][c] = IF c < m THEN s0[c + Width] ELSE s0[c]
    <3>1. c \in Int /\ m - 1 \in Int /\ m - 1 + Width \in Cells /\ ~(m - 1 + Width < m - 1) /\ m - 1 \in Cells
      BY <1>2, <2>3, <2>5, ScreenSize
    <3>2. g[m - 1][m - 1 + Width] = s0[m - 1 + Width]
      BY <2>6, <3>1
    <3>3. g[m][m - 1] = s0[m - 1 + Width]
      BY <2>7, <3>1, <3>2
    <3>4. CASE c = m - 1
      BY <2>5, <3>3, <3>4
    <3>5. CASE c # m - 1
      <4>1. g[m][c] = g[m - 1][c]
        BY <2>7, <3>5
      <4>2. c < m - 1 <=> c < m
        BY <2>3, <3>1, <3>5
      <4> QED BY <2>6, <4>1, <4>2
    <3> QED BY <3>4, <3>5
  <2> QED BY <2>3, <2>8
<1>10. Right(Above)
  <2> HIDE DEF Right
  <2>1. Above \in 0 .. Above
    BY <1>1
  <2> QED BY <1>9, <2>1
<1>11. ASSUME NEW k \in 0 .. Above - 1 PROVE MovedTo(s0)[k] = s0[k + Width]
  <2>1. k \in Cells /\ k < Above
    BY <1>2, ScreenSize
  <2> QED BY <1>4, <1>7, <1>10, <2>1
<1> QED BY <1>11

LEMMA ScrollIs ==
  ASSUME NEW t \in TextState
  PROVE  Scroll(t) = [screen |-> [k \in Cells |-> IF k < Above THEN t.screen[k + Width] ELSE Blank],
                      x |-> t.x, y |-> t.y]
<1>1. t.screen \in [Cells -> CellValue] /\ t = [screen |-> t.screen, x |-> t.x, y |-> t.y]
  BY DEF TextState
<1>2. \A k \in Cells : k < Above => k \in 0 .. Above - 1
  BY ScreenSize
<1>3. [k \in Cells |-> IF k < Above THEN MovedTo(t.screen)[k] ELSE Blank]
      = [k \in Cells |-> IF k < Above THEN t.screen[k + Width] ELSE Blank]
  BY <1>1, <1>2, Moved
<1> QED BY <1>1, <1>3, ScrollMoves

LEMMA NextLineIs ==
  ASSUME NEW t \in TextState
  PROVE  /\ t.y + 1 >= Height =>
              NextLine(t) = [screen |-> [k \in Cells |-> IF k < Above THEN t.screen[k + Width] ELSE Blank],
                             x |-> 0, y |-> t.y]
         /\ t.y + 1 < Height => NextLine(t) = [screen |-> t.screen, x |-> 0, y |-> t.y + 1]
         /\ NextLine(t) \in TextState /\ NextLine(t).x = 0
<1>1. t = [screen |-> t.screen, x |-> t.x, y |-> t.y] /\ t.screen \in [Cells -> CellValue]
      /\ t.x \in 0 .. Width /\ t.y \in 0 .. Height - 1 /\ t.y \in Int
  BY DEF TextState
<1>2. Blank \in CellValue /\ Width \in Nat /\ Height \in Nat
  BY ScreenSize DEF CellValue
<1> DEFINE s == [k \in Cells |-> IF k < Above THEN t.screen[k + Width] ELSE Blank]
<1>3. s \in [Cells -> CellValue]
  <2>1. \A k \in Cells : k < Above => k + Width \in Cells
    BY ScreenSize
  <2> QED BY <1>1, <1>2, <2>1
<1>4. Scroll(t) = [screen |-> s, x |-> t.x, y |-> t.y]
  BY ScrollIs
<1> HIDE DEF s
<1>5. CASE t.y + 1 >= Height
  <2>1. NextLine(t) = [Scroll(t) EXCEPT !.x = 0]
    BY <1>5 DEF NextLine
  <2>2. NextLine(t) = [screen |-> s, x |-> 0, y |-> t.y]
    BY <1>4, <2>1
  <2>3. NextLine(t) \in TextState
    BY <1>1, <1>2, <1>3, <2>2 DEF TextState
  <2> QED BY <1>1, <1>2, <1>5, <2>2, <2>3 DEF s
<1>6. CASE t.y + 1 < Height
  <2>1. NextLine(t) = [[t EXCEPT !.x = 0] EXCEPT !.y = t.y + 1]
    BY <1>1, <1>2, <1>6 DEF NextLine
  <2>2. NextLine(t) = [screen |-> t.screen, x |-> 0, y |-> t.y + 1]
    BY <1>1, <2>1
  <2>3. NextLine(t) \in TextState
    BY <1>1, <1>2, <1>6, <2>2 DEF TextState
  <2> QED BY <1>1, <1>2, <1>6, <2>2, <2>3
<1> QED BY <1>1, <1>2, <1>5, <1>6

(* Where the next character goes. *)
LEMMA CellOf ==
  ASSUME NEW u \in TextState, u.x < Width
  PROVE  u.x + u.y * Width \in Cells
<1>1. u.x \in Nat /\ u.y \in Nat /\ u.y <= Height - 1 /\ u.x < Width
  BY ScreenSize DEF TextState
<1>2. Width * u.y \in Nat /\ u.y * Width = Width * u.y /\ Width * u.y <= Above
  BY <1>1, ScreenSize, Lengths DEF Above
<1> DEFINE p == u.y * Width
<1>3. p \in Nat /\ p <= Above
  BY <1>2
<1> HIDE DEF p
<1>4. u.x + p \in Cells
  BY <1>1, <1>3, ScreenSize
<1> QED BY <1>4 DEF p

PutInk(u, c) ==
  [screen |-> [u.screen EXCEPT ![u.x + u.y * Width] = Ink(c)], x |-> u.x + 1, y |-> u.y]

LEMMA PutInkType ==
  ASSUME NEW u \in TextState, u.x < Width, NEW c \in Char
  PROVE  PutInk(u, c) \in TextState
<1>1. u.screen \in [Cells -> CellValue] /\ u.x + 1 \in 0 .. Width /\ u.y \in 0 .. Height - 1
  BY ScreenSize DEF TextState
<1>2. Ink(c) \in CellValue
  BY DEF CellValue
<1>3. [u.screen EXCEPT ![u.x + u.y * Width] = Ink(c)] \in [Cells -> CellValue]
  BY <1>1, <1>2
<1> QED BY <1>1, <1>3 DEF PutInk, TextState

LEMMA PutIs ==
  ASSUME NEW t \in TextState, NEW c \in Char
  PROVE  \E u \in TextState :
           /\ u = IF t.x = Width \/ c = Newline THEN NextLine(t) ELSE t
           /\ u.x < Width
           /\ Put(t, c) = IF c = Newline THEN u ELSE PutInk(u, c)
           /\ Put(t, c) \in TextState
<1> DEFINE u == IF t.x = Width \/ c = Newline THEN NextLine(t) ELSE t
<1>1. t.x >= Width <=> t.x = Width
  BY ScreenSize DEF TextState
<1>2. u \in TextState /\ u.x < Width
  BY <1>1, NextLineIs, ScreenSize DEF TextState
<1>3. Put(t, c) = IF c = Newline THEN u
                  ELSE [u EXCEPT !.screen[u.x + u.y * Width] = Ink(c), !.x = u.x + 1]
  BY <1>1 DEF Put
<1> HIDE DEF u
<1>4. [u EXCEPT !.screen[u.x + u.y * Width] = Ink(c), !.x = u.x + 1] = PutInk(u, c)
  <2>1. u = [screen |-> u.screen, x |-> u.x, y |-> u.y]
    BY <1>2 DEF TextState
  <2> DEFINE p == u.x + u.y * Width
             s == [u.screen EXCEPT ![p] = Ink(c)]
  <2>2. [u EXCEPT !.screen[p] = Ink(c), !.x = u.x + 1] = [[u EXCEPT !.screen = s] EXCEPT !.x = u.x + 1]
    OBVIOUS
  <2> HIDE DEF s
  <2>3. [[u EXCEPT !.screen = s] EXCEPT !.x = u.x + 1] = [screen |-> s, x |-> u.x + 1, y |-> u.y]
    <3>1. u.screen \in [Cells -> CellValue] /\ u.x \in 0 .. Width /\ u.y \in 0 .. Height - 1
          /\ Ink(c) \in CellValue /\ u.x + 1 \in 0 .. Width
      BY <1>2, ScreenSize DEF TextState, CellValue
    <3>2. s \in [Cells -> CellValue]
      BY <3>1 DEF s
    <3> DEFINE v == [u EXCEPT !.screen = s]
               n == u.x + 1
    <3>3. v = [screen |-> s, x |-> u.x, y |-> u.y] /\ v \in TextState
      BY <2>1, <3>1, <3>2 DEF TextState
    <3> HIDE DEF v, n
    <3>4. [v EXCEPT !.x = n] = [screen |-> v.screen, x |-> n, y |-> v.y]
      BY <3>3 DEF TextState
    <3>5. v.screen = s /\ v.y = u.y
      BY <3>3
    <3> QED BY <3>4, <3>5 DEF v, n
  <2> QED BY <2>2, <2>3 DEF PutInk, s
<1>5. Put(t, c) = IF c = Newline THEN u ELSE PutInk(u, c)
  BY <1>3, <1>4
<1>6. Put(t, c) \in TextState
  BY <1>2, <1>5, PutInkType
<1> QED BY <1>2, <1>5, <1>6 DEF u

-----------------------------------------------------------------------------
LEMMA FeedLineIs ==
  ASSUME NEW sheet \in SheetState
  PROVE  /\ FeedLine(sheet) \in SheetState
         /\ FeedLine(sheet).row = sheet.row + 1 /\ FeedLine(sheet).col = 0
         /\ (sheet.row + 1) * Width < Len(sheet.cells) => FeedLine(sheet).cells = sheet.cells
         /\ (sheet.row + 1) * Width >= Len(sheet.cells) =>
              /\ Len(FeedLine(sheet).cells) = Len(sheet.cells) + Width
              /\ \A k \in 1 .. Len(sheet.cells) : FeedLine(sheet).cells[k] = sheet.cells[k]
              /\ \A k \in 1 .. Width : FeedLine(sheet).cells[Len(sheet.cells) + k] = Blank
<1> DEFINE s == sheet.cells
           b == Repeated(Blank, Width)
           long == (sheet.row + 1) * Width >= Len(s)
<1>1. s \in Seq(CellValue) /\ sheet.row \in Nat /\ Len(s) \in Nat /\ Width \in Nat
  BY ScreenSize, LenProperties DEF SheetState
<1>2. b \in Seq(CellValue) /\ Len(b) = Width /\ \A k \in 1 .. Width : b[k] = Blank
  <2>1. Blank \in CellValue
    BY DEF CellValue
  <2> QED BY <1>1, <2>1, Repeats
<1> HIDE DEF b
<1>3. /\ s \o b \in Seq(CellValue) /\ Len(s \o b) = Len(s) + Width
      /\ \A k \in 1 .. Len(s) : (s \o b)[k] = s[k]
      /\ \A k \in 1 .. Width : (s \o b)[Len(s) + k] = Blank
  <2>1. /\ s \o b \in Seq(CellValue) /\ Len(s \o b) = Len(s) + Len(b)
        /\ \A k \in 1 .. Len(s) + Len(b) :
             (s \o b)[k] = IF k <= Len(s) THEN s[k] ELSE b[k - Len(s)]
    BY <1>1, <1>2, ConcatProperties
  <2> DEFINE m == Len(s)
             a == s \o b
  <2>2. /\ m \in Nat /\ a \in Seq(CellValue) /\ Len(a) = m + Width
        /\ \A k \in 1 .. m + Width : a[k] = IF k <= m THEN s[k] ELSE b[k - m]
    BY <1>1, <1>2, <2>1
  <2> HIDE DEF m, a
  <2>3. \A k \in 1 .. m : a[k] = s[k]
    BY <1>1, <2>2
  <2>4. ASSUME NEW k \in 1 .. Width PROVE a[m + k] = Blank
    <3>1. m + k \in 1 .. m + Width /\ ~(m + k <= m) /\ (m + k) - m = k
      BY <1>1, <2>2
    <3> QED BY <1>2, <2>2, <3>1
  <2> QED BY <2>2, <2>3, <2>4 DEF m, a
<1>4. FeedLine(sheet) = [cells |-> IF long THEN s \o b ELSE s, row |-> sheet.row + 1, col |-> 0]
  BY DEF FeedLine, b
<1>5. long <=> ~((sheet.row + 1) * Width < Len(s))
  <2>1. (sheet.row + 1) * Width \in Int
    BY <1>1
  <2> DEFINE p == (sheet.row + 1) * Width
  <2> HIDE DEF p
  <2>2. p >= Len(s) <=> ~(p < Len(s))
    BY <1>1, <2>1 DEF p
  <2> QED BY <2>2 DEF p
<1> HIDE DEF long
<1>6. FeedLine(sheet) \in SheetState
  BY <1>1, <1>3, <1>4 DEF SheetState
<1>7. long => FeedLine(sheet).cells = s \o b
  BY <1>4
<1>8. ~long => FeedLine(sheet).cells = s
  BY <1>4
<1>9. FeedLine(sheet).row = sheet.row + 1 /\ FeedLine(sheet).col = 0
  BY <1>4
<1>10. long => /\ Len(FeedLine(sheet).cells) = Len(s) + Width
               /\ \A k \in 1 .. Len(s) : FeedLine(sheet).cells[k] = s[k]
               /\ \A k \in 1 .. Width : FeedLine(sheet).cells[Len(s) + k] = Blank
  BY <1>3, <1>7
<1> QED BY <1>5, <1>6, <1>8, <1>9, <1>10 DEF long

TypeInk(at, c) ==
  [cells |-> ReplaceAt(at.cells, at.row * Width + at.col + 1, Ink(c)),
   row |-> at.row, col |-> at.col + 1]

LEMMA TypeInkType ==
  ASSUME NEW at \in SheetState, at.col # Width, NEW c \in Char
  PROVE  /\ TypeInk(at, c) \in SheetState
         /\ Len(TypeInk(at, c).cells) = Len(at.cells)
         /\ \A k \in 1 .. Len(at.cells) :
              TypeInk(at, c).cells[k] = IF k = at.row * Width + at.col + 1 THEN Ink(c) ELSE at.cells[k]
<1> DEFINE p == at.row * Width + at.col + 1
           s == at.cells
           r == [s EXCEPT ![p] = Ink(c)]
<1>1. s \in Seq(CellValue) /\ Len(s) \in Nat /\ at.row \in Nat /\ at.col + 1 \in 0 .. Width
  BY ScreenSize, LenProperties DEF SheetState
<1>2. TypeInk(at, c) = [cells |-> r, row |-> at.row, col |-> at.col + 1]
  BY DEF TypeInk, ReplaceAt
<1>3. Ink(c) \in CellValue
  BY DEF CellValue
<1> HIDE DEF p
<1>4. /\ r \in Seq(CellValue) /\ Len(r) = Len(s)
      /\ \A k \in 1 .. Len(s) : r[k] = IF k = p THEN Ink(c) ELSE s[k]
  <2>1. s \in [1 .. Len(s) -> CellValue] /\ DOMAIN s = 1 .. Len(s)
    BY <1>1, LenProperties
  <2> DEFINE m == Len(s)
  <2>2. m \in Nat /\ s \in [1 .. m -> CellValue]
    BY <1>1, <2>1
  <2> HIDE DEF m, s
  <2>3. r \in [1 .. m -> CellValue] /\ \A k \in 1 .. m : r[k] = IF k = p THEN Ink(c) ELSE s[k]
    BY <1>3, <2>2
  <2> HIDE DEF r
  <2>4. r \in Seq(CellValue) /\ Len(r) = m
    BY <2>2, <2>3, LengthIs
  <2> QED BY <2>3, <2>4 DEF m
<1> HIDE DEF r, s
<1>5. TypeInk(at, c) \in SheetState
  BY <1>1, <1>2, <1>4 DEF SheetState
<1>6. TypeInk(at, c).cells = r
  BY <1>2
<1> QED BY <1>4, <1>5, <1>6 DEF p, s

LEMMA TypeIs ==
  ASSUME NEW sheet \in SheetState, NEW c \in Char
  PROVE  \E at \in SheetState :
           /\ at = IF sheet.col = Width \/ c = Newline THEN FeedLine(sheet) ELSE sheet
           /\ at.col # Width
           /\ Type(sheet, c) = IF c = Newline THEN at ELSE TypeInk(at, c)
           /\ Type(sheet, c) \in SheetState
<1> DEFINE at == IF sheet.col = Width \/ c = Newline THEN FeedLine(sheet) ELSE sheet
<1>1. at \in SheetState /\ at.col # Width
  BY FeedLineIs, ScreenSize
<1>2. Type(sheet, c) = IF c = Newline THEN at ELSE TypeInk(at, c)
  BY DEF Type, TypeInk
<1> HIDE DEF at
<1>3. Type(sheet, c) \in SheetState
  BY <1>1, <1>2, TypeInkType
<1> QED BY <1>1, <1>2, <1>3 DEF at

-----------------------------------------------------------------------------
(* The screen shows the sheet from its line l on. *)
ShowsAt(t, sheet, l) ==
  /\ Len(sheet.cells) = Above + Width + Width * l
  /\ sheet.row = t.y + l /\ sheet.col = t.x
  /\ \A k \in Cells : t.screen[k] = sheet.cells[Width * l + k + 1]

LEMMA FeedShows ==
  ASSUME NEW t \in TextState, NEW sheet \in SheetState, NEW l \in Nat, ShowsAt(t, sheet, l)
  PROVE  \E m \in Nat : ShowsAt(NextLine(t), FeedLine(sheet), m)
<1> DEFINE s == sheet.cells
           f == FeedLine(sheet)
           w == Width * l
           len == Len(s)
<1>1. /\ t.y \in Nat /\ t.y <= Height - 1 /\ sheet.row = t.y + l /\ sheet.col = t.x
      /\ Width \in Nat \ {0} /\ Height \in Nat \ {0} /\ Above \in Nat
  BY ScreenSize DEF TextState, ShowsAt
<1>2. w \in Nat /\ len = Above + Width + w /\ len \in Nat
  <2>1. w \in Nat
    BY Lengths
  <2> QED BY <1>1, <2>1 DEF ShowsAt
<1>3. Width * Height = Above + Width
  BY ScreenSize
<1>4. CASE t.y + 1 >= Height
  <2>1. t.y + 1 = Height
    BY <1>1, <1>4
  <2>2. (sheet.row + 1) * Width = len
    <3>1. sheet.row + 1 = Height + l /\ Height + l \in Nat
      BY <1>1, <2>1
    <3>2. (Height + l) * Width = Width * (Height + l) /\ Width * (Height + l) = Width * Height + Width * l
      BY <1>1, <3>1, Lengths
    <3> HIDE DEF len
    <3> QED BY <1>2, <1>3, <3>1, <3>2
  <2>3. /\ Len(f.cells) = len + Width
        /\ \A k \in 1 .. len : f.cells[k] = s[k]
        /\ \A k \in 1 .. Width : f.cells[len + k] = Blank
        /\ f.row = sheet.row + 1 /\ f.col = 0
    <3>1. (sheet.row + 1) * Width >= Len(sheet.cells)
      BY <1>2, <2>2
    <3> QED BY <3>1, FeedLineIs
  <2>4. NextLine(t) = [screen |-> [k \in Cells |-> IF k < Above THEN t.screen[k + Width] ELSE Blank],
                       x |-> 0, y |-> t.y]
    BY <1>4, NextLineIs
  <2>5. Width * (l + 1) = w + Width
    BY <1>1
  <2> HIDE DEF f, w, len
  <2>6. ASSUME NEW k \in Cells
        PROVE  NextLine(t).screen[k] = f.cells[Width * (l + 1) + k + 1]
    <3>1. k \in Nat /\ k <= Above + Width - 1
      BY <1>1, ScreenSize
    <3>2. CASE k < Above
      <4>1. k + Width \in Cells /\ w + Width + k + 1 \in 1 .. len
        BY <1>1, <1>2, <3>1, <3>2, ScreenSize
      <4>2. NextLine(t).screen[k] = t.screen[k + Width]
        BY <2>4, <3>2
      <4>3. t.screen[k + Width] = s[w + (k + Width) + 1]
        BY <4>1 DEF ShowsAt, w
      <4>4. w + (k + Width) + 1 = w + Width + k + 1
        BY <1>1, <1>2, <3>1
      <4> QED BY <2>3, <2>5, <4>1, <4>2, <4>3, <4>4
    <3>3. CASE ~(k < Above)
      <4> DEFINE j == k - Above + 1
      <4>1. j \in 1 .. Width /\ w + Width + k + 1 = len + j
        BY <1>1, <1>2, <3>1, <3>3
      <4>2. NextLine(t).screen[k] = Blank
        BY <2>4, <3>3
      <4> HIDE DEF j
      <4> QED BY <2>3, <2>5, <4>1, <4>2
    <3> QED BY <3>2, <3>3
  <2>7. Len(f.cells) = Above + Width + Width * (l + 1)
    BY <1>1, <1>2, <2>3, <2>5
  <2>8. f.row = NextLine(t).y + (l + 1) /\ f.col = NextLine(t).x
    <3>1. NextLine(t).x = 0 /\ NextLine(t).y = t.y
      BY <2>4
    <3>2. (t.y + l) + 1 = t.y + (l + 1)
      BY <1>1
    <3>3. f.row = t.y + (l + 1) /\ f.col = 0
      BY <1>1, <2>3, <3>2
    <3> QED BY <3>1, <3>3
  <2>9. ShowsAt(NextLine(t), f, l + 1)
    BY <2>6, <2>7, <2>8 DEF ShowsAt
  <2> QED BY <2>9 DEF f
<1>5. CASE t.y + 1 < Height
  <2>1. (sheet.row + 1) * Width < len
    <3>1. sheet.row + 1 = t.y + 1 + l /\ t.y + 1 + l \in Nat /\ Height + l \in Nat /\ t.y + 1 + l < Height + l
      BY <1>1, <1>5
    <3>2. Width * (Height + l) = Width * Height + Width * l
      BY <1>1, Lengths
    <3> DEFINE a == t.y + 1 + l
               b == Height + l
    <3>3. Width * a + Width <= Width * b /\ a * Width = Width * a /\ Width * a \in Nat
      <4> HIDE DEF a, b
      <4>1. a \in Nat /\ b \in Nat /\ a < b
        BY <3>1 DEF a, b
      <4> QED BY <4>1, Lengths
    <3>4. (sheet.row + 1) * Width = a * Width
      BY <3>1
    <3> DEFINE p == Width * a
               q == Width * b
    <3>5. q = Above + Width + w
      BY <1>3, <3>2
    <3> HIDE DEF a, b, len, w
    <3>6. p \in Nat /\ p + Width <= q /\ (sheet.row + 1) * Width = p
      BY <3>3, <3>4
    <3> HIDE DEF p, q
    <3> QED BY <1>1, <1>2, <3>5, <3>6
  <2>2. f.cells = s /\ f.row = sheet.row + 1 /\ f.col = 0
    BY <2>1, FeedLineIs
  <2>3. NextLine(t) = [screen |-> t.screen, x |-> 0, y |-> t.y + 1]
    BY <1>5, NextLineIs
  <2> HIDE DEF f
  <2>4. f.row = NextLine(t).y + l /\ f.col = NextLine(t).x
    <3>1. NextLine(t).x = 0 /\ NextLine(t).y = t.y + 1
      BY <2>3
    <3>2. (t.y + l) + 1 = (t.y + 1) + l
      BY <1>1
    <3>3. f.row = (t.y + 1) + l /\ f.col = 0
      BY <1>1, <2>2, <3>2
    <3> QED BY <3>1, <3>3
  <2>5. \A k \in Cells : NextLine(t).screen[k] = f.cells[Width * l + k + 1]
    BY <2>2, <2>3 DEF ShowsAt
  <2>6. ShowsAt(NextLine(t), f, l)
    BY <2>2, <2>4, <2>5 DEF ShowsAt
  <2> QED BY <2>6 DEF f
<1> QED BY <1>1, <1>4, <1>5

LEMMA InkShows ==
  ASSUME NEW u \in TextState, u.x < Width, NEW at \in SheetState, NEW c \in Char,
         NEW l \in Nat, ShowsAt(u, at, l)
  PROVE  ShowsAt(PutInk(u, c), TypeInk(at, c), l)
<1> DEFINE s == at.cells
           w == Width * l
           p == u.x + u.y * Width
           i == at.row * Width + at.col + 1
<1>1. /\ u.y \in Nat /\ u.x \in Nat /\ u.x # Width
      /\ at.row = u.y + l /\ at.col = u.x /\ Width \in Nat /\ Above \in Nat
      /\ Cells = 0 .. Above + Width - 1
  BY ScreenSize DEF TextState, ShowsAt
<1>2. w \in Nat /\ Len(s) = Above + Width + w
  <2>1. w \in Nat
    BY Lengths
  <2> QED BY <2>1 DEF ShowsAt
<1>3. p \in Cells /\ i = w + p + 1
  <2>1. p \in Cells
    BY CellOf
  <2>2. at.row * Width = Width * l + Width * u.y /\ u.y * Width = Width * u.y
    BY <1>1
  <2> DEFINE q == Width * u.y
  <2>3. q \in Nat
    BY <1>1, Lengths
  <2>4. i = w + q + u.x + 1 /\ p = u.x + q
    <3> HIDE DEF w, q
    <3>1. at.row * Width = w + q /\ u.y * Width = q
      BY <2>2 DEF w, q
    <3> QED BY <1>1, <3>1
  <2> HIDE DEF q, p, i, w
  <2> QED BY <1>1, <1>2, <2>1, <2>3, <2>4
<1>4. PutInk(u, c) = [screen |-> [u.screen EXCEPT ![p] = Ink(c)], x |-> u.x + 1, y |-> u.y]
  BY DEF PutInk
<1>5. /\ Len(TypeInk(at, c).cells) = Len(s)
      /\ \A k \in 1 .. Len(s) : TypeInk(at, c).cells[k] = IF k = i THEN Ink(c) ELSE s[k]
      /\ TypeInk(at, c).row = at.row /\ TypeInk(at, c).col = at.col + 1
  <2>1. at.col # Width
    BY <1>1
  <2> QED BY <2>1, TypeInkType DEF TypeInk
<1>6. u.screen \in [Cells -> CellValue] /\ \A k \in Cells : u.screen[k] = s[w + k + 1]
  BY DEF TextState, ShowsAt
<1> HIDE DEF s, w, p, i
<1>7. ASSUME NEW k \in Cells
      PROVE  PutInk(u, c).screen[k] = TypeInk(at, c).cells[w + k + 1]
  <2>1. k \in Int /\ p \in Int /\ w + k + 1 \in 1 .. Len(s)
    BY <1>1, <1>2, <1>3
  <2>2. w + k + 1 = i <=> k = p
    BY <1>2, <1>3, <2>1
  <2>3. PutInk(u, c).screen[k] = IF k = p THEN Ink(c) ELSE u.screen[k]
    BY <1>4, <1>6
  <2> QED BY <1>5, <1>6, <2>1, <2>2, <2>3
<1>8. PutInk(u, c).x = u.x + 1 /\ PutInk(u, c).y = u.y
  BY <1>4
<1> QED BY <1>1, <1>5, <1>7, <1>8 DEF ShowsAt, s, w

LEMMA PutShows ==
  ASSUME NEW t \in TextState, NEW sheet \in SheetState, NEW c \in Char,
         NEW l \in Nat, ShowsAt(t, sheet, l)
  PROVE  \E m \in Nat : ShowsAt(Put(t, c), Type(sheet, c), m)
<1>1. PICK u \in TextState :
        /\ u = IF t.x = Width \/ c = Newline THEN NextLine(t) ELSE t
        /\ u.x < Width
        /\ Put(t, c) = IF c = Newline THEN u ELSE PutInk(u, c)
  BY PutIs
<1>2. PICK at \in SheetState :
        /\ at = IF sheet.col = Width \/ c = Newline THEN FeedLine(sheet) ELSE sheet
        /\ at.col # Width
        /\ Type(sheet, c) = IF c = Newline THEN at ELSE TypeInk(at, c)
  BY TypeIs
<1>3. sheet.col = t.x
  BY DEF ShowsAt
<1>4. PICK m \in Nat : ShowsAt(u, at, m)
  BY <1>1, <1>2, <1>3, FeedShows
<1>5. c # Newline => ShowsAt(PutInk(u, c), TypeInk(at, c), m)
  BY <1>1, <1>4, InkShows
<1> QED BY <1>1, <1>2, <1>4, <1>5

-----------------------------------------------------------------------------
(* A string is written, and typed, one character after the other. *)
LEMMA WriteRuns ==
  ASSUME NEW t \in TextState, NEW str \in Seq(Char)
  PROVE  \E g : /\ g \in [0 .. Len(str) -> TextState] /\ g[0] = t /\ g[Len(str)] = TextWrite(t, str)
                /\ \A k \in 1 .. Len(str) : g[k] = Put(g[k - 1], str[k])
<1> DEFINE V == TextState
           H == [p \in V \X Char |-> Put(p[1], p[2])]
           n == Len(str)
           f == CHOOSE f : f = [S \in SUBSET DOMAIN str |->
                  IF S = {} THEN t ELSE Put(f[S \ {Max(S)}], str[Max(S)])]
<1>1. n \in Nat /\ DOMAIN str = 1 .. n /\ \A k \in 1 .. n : str[k] \in Char
  BY LenProperties
<1>2. TextWrite(t, str) = f[DOMAIN str]
  BY DEF TextWrite, FoldLeft, MapThenFoldSet, f
<1>3. ASSUME NEW v \in V, NEW e \in Char
      PROVE  H[<<v, e>>] = Put(v, e) /\ H[<<v, e>>] \in V
  BY PutIs
<1> HIDE DEF V, H, n, f
<1>4. \E ff : ff = [S \in SUBSET DOMAIN str |->
        IF S = {} THEN t ELSE Put(ff[S \ {Max(S)}], str[Max(S)])]
  <2>1. PICK ff : IsFold(ff, n, V, H, t, str)
    BY <1>1, <1>3, FoldExists DEF V
  <2>2. ASSUME NEW S \in SUBSET (1 .. n), S # {}
        PROVE  ff[S] = Put(ff[S \ {Max(S)}], str[Max(S)])
    <3>1. Max(S) \in 1 .. n
      BY <1>1, <2>2, GreatestIndex
    <3>2. str[Max(S)] \in Char /\ ff[S \ {Max(S)}] \in V
      BY <1>1, <2>1, <3>1 DEF IsFold
    <3>3. ff[S] = H[<<ff[S \ {Max(S)}], str[Max(S)]>>]
      BY <2>1, <2>2 DEF IsFold
    <3> QED BY <1>3, <3>2, <3>3
  <2>3. ff = [S \in SUBSET (1 .. n) |-> ff[S]] /\ ff[{}] = t
    BY <2>1 DEF IsFold
  <2> QED BY <1>1, <2>2, <2>3
<1>5. f = [S \in SUBSET (1 .. n) |->
        IF S = {} THEN t ELSE Put(f[S \ {Max(S)}], str[Max(S)])]
  BY <1>1, <1>4 DEF f
<1>6. IsChosen(f, n, V, H, t, str)
  <2>1. f[{}] = t
    BY <1>5
  <2>2. ASSUME NEW S \in SUBSET (1 .. n), S # {}, f[S \ {Max(S)}] \in V
        PROVE  f[S] = H[<<f[S \ {Max(S)}], str[Max(S)]>>]
    <3>1. Max(S) \in 1 .. n
      BY <1>1, <2>2, GreatestIndex
    <3>2. f[S] = Put(f[S \ {Max(S)}], str[Max(S)])
      BY <1>5, <2>2
    <3> QED BY <1>1, <1>3, <2>2, <3>1, <3>2
  <2>3. \A v \in V, k \in 1 .. n : H[<<v, str[k]>>] \in V
    BY <1>1, <1>3
  <2>4. t \in V
    BY DEF V
  <2> QED BY <2>1, <2>2, <2>3, <2>4 DEF IsChosen
<1>7. PICK g : IsRun(g, n, V, H, t, str) /\ g[n] = f[1 .. n]
  BY <1>1, <1>6, FoldRuns
<1>8. ASSUME NEW k \in 1 .. n PROVE g[k] = Put(g[k - 1], str[k])
  <2>1. k - 1 \in 0 .. n
    BY <1>1
  <2>2. g[k - 1] \in V /\ g[k] = H[<<g[k - 1], str[k]>>]
    BY <1>7, <2>1 DEF IsRun
  <2> QED BY <1>1, <1>3, <2>2
<1>9. g \in [0 .. n -> V] /\ g[0] = t /\ g[n] = TextWrite(t, str)
  BY <1>1, <1>2, <1>7 DEF IsRun
<1> QED BY <1>8, <1>9 DEF V, n

BlankSheet == [cells |-> Repeated(Firmware, Width * Height), row |-> 0, col |-> 0]

LEMMA BlankSheetType ==
  /\ BlankSheet \in SheetState
  /\ BlankSheet.row = 0 /\ BlankSheet.col = 0
  /\ Len(BlankSheet.cells) = Above + Width
  /\ \A k \in 1 .. Above + Width : BlankSheet.cells[k] = Firmware
<1> DEFINE n == Above + Width
           s == Repeated(Firmware, n)
<1>1. n \in Nat /\ Width * Height = n
  BY ScreenSize
<1>2. BlankSheet = [cells |-> s, row |-> 0, col |-> 0]
  <2> HIDE DEF n
  <2> QED BY <1>1 DEF BlankSheet
<1>3. Firmware \in CellValue
  BY DEF CellValue
<1> HIDE DEF n, s
<1>4. s \in Seq(CellValue) /\ Len(s) = n /\ \A k \in 1 .. n : s[k] = Firmware
  BY <1>1, <1>3, Repeats DEF s
<1>5. BlankSheet \in SheetState
  BY <1>2, <1>4, ScreenSize DEF SheetState
<1> QED BY <1>2, <1>4, <1>5 DEF n

LEMMA SheetRuns ==
  ASSUME NEW str \in Seq(Char)
  PROVE  \E g : /\ g \in [0 .. Len(str) -> SheetState] /\ g[0] = BlankSheet /\ g[Len(str)] = Sheet(str)
                /\ \A k \in 1 .. Len(str) : g[k] = Type(g[k - 1], str[k])
<1> DEFINE V == SheetState
           H == [p \in V \X Char |-> Type(p[1], p[2])]
           n == Len(str)
           f == CHOOSE f : f = [S \in SUBSET DOMAIN str |->
                  IF S = {} THEN BlankSheet ELSE Type(f[S \ {Max(S)}], str[Max(S)])]
<1>1. n \in Nat /\ DOMAIN str = 1 .. n /\ \A k \in 1 .. n : str[k] \in Char
  BY LenProperties
<1>2. Sheet(str) = f[DOMAIN str]
  BY DEF Sheet, BlankSheet, FoldLeft, MapThenFoldSet, f
<1>3. ASSUME NEW v \in V, NEW e \in Char
      PROVE  H[<<v, e>>] = Type(v, e) /\ H[<<v, e>>] \in V
  BY TypeIs
<1> HIDE DEF V, H, n, f
<1>4. \E ff : ff = [S \in SUBSET DOMAIN str |->
        IF S = {} THEN BlankSheet ELSE Type(ff[S \ {Max(S)}], str[Max(S)])]
  <2>1. PICK ff : IsFold(ff, n, V, H, BlankSheet, str)
    BY <1>1, <1>3, BlankSheetType, FoldExists DEF V
  <2>2. ASSUME NEW S \in SUBSET (1 .. n), S # {}
        PROVE  ff[S] = Type(ff[S \ {Max(S)}], str[Max(S)])
    <3>1. Max(S) \in 1 .. n
      BY <1>1, <2>2, GreatestIndex
    <3>2. str[Max(S)] \in Char /\ ff[S \ {Max(S)}] \in V
      BY <1>1, <2>1, <3>1 DEF IsFold
    <3>3. ff[S] = H[<<ff[S \ {Max(S)}], str[Max(S)]>>]
      BY <2>1, <2>2 DEF IsFold
    <3> QED BY <1>3, <3>2, <3>3
  <2>3. ff = [S \in SUBSET (1 .. n) |-> ff[S]] /\ ff[{}] = BlankSheet
    BY <2>1 DEF IsFold
  <2> QED BY <1>1, <2>2, <2>3
<1>5. f = [S \in SUBSET (1 .. n) |->
        IF S = {} THEN BlankSheet ELSE Type(f[S \ {Max(S)}], str[Max(S)])]
  BY <1>1, <1>4 DEF f
<1>6. IsChosen(f, n, V, H, BlankSheet, str)
  <2>1. f[{}] = BlankSheet
    BY <1>5
  <2>2. ASSUME NEW S \in SUBSET (1 .. n), S # {}, f[S \ {Max(S)}] \in V
        PROVE  f[S] = H[<<f[S \ {Max(S)}], str[Max(S)]>>]
    <3>1. Max(S) \in 1 .. n
      BY <1>1, <2>2, GreatestIndex
    <3>2. f[S] = Type(f[S \ {Max(S)}], str[Max(S)])
      BY <1>5, <2>2
    <3> QED BY <1>1, <1>3, <2>2, <3>1, <3>2
  <2>3. \A v \in V, k \in 1 .. n : H[<<v, str[k]>>] \in V
    BY <1>1, <1>3
  <2>4. BlankSheet \in V
    BY BlankSheetType DEF V
  <2> QED BY <2>1, <2>2, <2>3, <2>4 DEF IsChosen
<1>7. PICK g : IsRun(g, n, V, H, BlankSheet, str) /\ g[n] = f[1 .. n]
  BY <1>1, <1>6, FoldRuns
<1>8. ASSUME NEW k \in 1 .. n PROVE g[k] = Type(g[k - 1], str[k])
  <2>1. k - 1 \in 0 .. n
    BY <1>1
  <2>2. g[k - 1] \in V /\ g[k] = H[<<g[k - 1], str[k]>>]
    BY <1>7, <2>1 DEF IsRun
  <2> QED BY <1>1, <1>3, <2>2
<1>9. g \in [0 .. n -> V] /\ g[0] = BlankSheet /\ g[n] = Sheet(str)
  BY <1>1, <1>2, <1>7 DEF IsRun
<1> QED BY <1>8, <1>9 DEF V, n

LEMMA SheetGoesOn ==
  ASSUME NEW w \in Seq(Char), NEW str \in Seq(Char)
  PROVE  /\ Sheet(w) \in SheetState
         /\ \E g : /\ g \in [0 .. Len(str) -> SheetState]
                   /\ g[0] = Sheet(w) /\ g[Len(str)] = Sheet(w \o str)
                   /\ \A k \in 1 .. Len(str) : g[k] = Type(g[k - 1], str[k])
<1> DEFINE m == Len(w)
           n == Len(str)
           all == w \o str
<1>1. m \in Nat /\ n \in Nat
  BY LenProperties
<1>2. all \in Seq(Char) /\ Len(all) = m + n
      /\ \A k \in 1 .. m + n : all[k] = IF k <= m THEN w[k] ELSE str[k - m]
  BY ConcatProperties
<1>3. PICK a : /\ a \in [0 .. m -> SheetState] /\ a[0] = BlankSheet /\ a[m] = Sheet(w)
               /\ \A k \in 1 .. m : a[k] = Type(a[k - 1], w[k])
  BY SheetRuns
<1> HIDE DEF all
<1>4. PICK b : /\ b \in [0 .. m + n -> SheetState] /\ b[0] = BlankSheet /\ b[m + n] = Sheet(all)
               /\ \A k \in 1 .. m + n : b[k] = Type(b[k - 1], all[k])
  <2>1. \E b : /\ b \in [0 .. Len(all) -> SheetState] /\ b[0] = BlankSheet /\ b[Len(all)] = Sheet(all)
               /\ \A k \in 1 .. Len(all) : b[k] = Type(b[k - 1], all[k])
    BY <1>2, SheetRuns
  <2> QED BY <1>2, <2>1
<1> HIDE DEF m, n
<1> DEFINE Bad == {k \in 0 .. m : a[k] # b[k]}
<1>5. ASSUME Bad # {} PROVE FALSE
  <2>1. Bad \in SUBSET Nat
    OBVIOUS
  <2>2. PICK j \in Bad : \A k \in Bad : j <= k
    <3> HIDE DEF Bad
    <3> QED BY <1>5, <2>1, Least
  <2>3. j # 0
    BY <1>3, <1>4, <2>2
  <2>4. j - 1 \in 0 .. m /\ j \in 1 .. m /\ j \in 1 .. m + n /\ j <= m /\ j - 1 < j
    BY <1>1, <2>2, <2>3
  <2>5. a[j - 1] = b[j - 1]
    BY <2>2, <2>4
  <2>6. a[j] = Type(a[j - 1], w[j]) /\ b[j] = Type(b[j - 1], w[j])
    BY <1>2, <1>3, <1>4, <2>4
  <2> QED BY <2>2, <2>5, <2>6
<1>6. b[m] = Sheet(w)
  BY <1>1, <1>3, <1>5
<1> DEFINE g == [k \in 0 .. n |-> b[m + k]]
<1>7. g \in [0 .. n -> SheetState] /\ g[0] = Sheet(w) /\ g[n] = Sheet(all)
  <2>1. \A k \in 0 .. n : m + k \in 0 .. m + n
    BY <1>1
  <2>2. m + 0 = m
    BY <1>1
  <2> QED BY <1>1, <1>4, <1>6, <2>1, <2>2
<1>8. ASSUME NEW k \in 1 .. n PROVE g[k] = Type(g[k - 1], str[k])
  <2>1. /\ m + k \in 1 .. m + n /\ ~(m + k <= m) /\ (m + k) - m = k
        /\ (m + k) - 1 = m + (k - 1) /\ k \in 0 .. n /\ k - 1 \in 0 .. n
    BY <1>1
  <2>2. b[m + k] = Type(b[m + (k - 1)], str[k])
    BY <1>2, <1>4, <2>1
  <2> QED BY <2>1, <2>2
<1>9. Sheet(w) \in SheetState
  BY <1>1, <1>3
<1> HIDE DEF g
<1> QED BY <1>7, <1>8, <1>9 DEF n, all

LEMMA WriteShows ==
  ASSUME NEW w \in Seq(Char), NEW str \in Seq(Char), NEW t \in TextState,
         \E l \in Nat : ShowsAt(t, Sheet(w), l)
  PROVE  /\ TextWrite(t, str) \in TextState
         /\ \E l \in Nat : ShowsAt(TextWrite(t, str), Sheet(w \o str), l)
<1> DEFINE n == Len(str)
<1>1. n \in Nat /\ \A k \in 1 .. n : str[k] \in Char
  BY LenProperties
<1>2. PICK g : /\ g \in [0 .. n -> TextState] /\ g[0] = t /\ g[n] = TextWrite(t, str)
               /\ \A k \in 1 .. n : g[k] = Put(g[k - 1], str[k])
  BY WriteRuns
<1>3. PICK s : /\ s \in [0 .. n -> SheetState] /\ s[0] = Sheet(w) /\ s[n] = Sheet(w \o str)
               /\ \A k \in 1 .. n : s[k] = Type(s[k - 1], str[k])
  BY SheetGoesOn
<1> HIDE DEF n
<1> DEFINE Shown(k) == \E l \in Nat : ShowsAt(g[k], s[k], l)
           Bad == {k \in 0 .. n : ~Shown(k)}
<1>4. ASSUME Bad # {} PROVE FALSE
  <2> HIDE DEF Shown
  <2>1. Bad \in SUBSET Nat
    OBVIOUS
  <2>2. PICK j \in Bad : \A k \in Bad : j <= k
    <3> HIDE DEF Bad
    <3> QED BY <1>4, <2>1, Least
  <2>3. Shown(0)
    BY <1>2, <1>3 DEF Shown
  <2>4. j # 0
    BY <2>2, <2>3
  <2>5. j - 1 \in 0 .. n /\ j \in 1 .. n /\ j - 1 < j
    BY <1>1, <2>2, <2>4
  <2>6. Shown(j - 1)
    BY <2>2, <2>5
  <2>7. g[j - 1] \in TextState /\ s[j - 1] \in SheetState /\ str[j] \in Char
    BY <1>1, <1>2, <1>3, <2>5
  <2>8. g[j] = Put(g[j - 1], str[j]) /\ s[j] = Type(s[j - 1], str[j])
    BY <1>2, <1>3, <2>5
  <2>9. Shown(j)
    BY <2>6, <2>7, <2>8, PutShows DEF Shown
  <2> QED BY <2>2, <2>9
<1>5. n \in 0 .. n
  BY <1>1
<1>6. Shown(n)
  BY <1>4, <1>5
<1>7. TextWrite(t, str) \in TextState
  BY <1>2, <1>5
<1> QED BY <1>2, <1>3, <1>6, <1>7

LEMMA InitShows ==
  /\ TextInit \in TextState
  /\ <<>> \in Seq(Char) /\ \E l \in Nat : ShowsAt(TextInit, Sheet(<<>>), l)
<1>1. <<>> \in Seq(Char) /\ Len(<<>>) = 0
  OBVIOUS
<1>2. Sheet(<<>>) = BlankSheet
  BY <1>1, SheetRuns
<1>3. TextInit = [screen |-> [k \in Cells |-> Firmware], x |-> 0, y |-> 0]
  BY DEF TextInit
<1>4. TextInit \in TextState
  <2>1. Firmware \in CellValue /\ 0 \in 0 .. Width /\ 0 \in 0 .. Height - 1
    BY ScreenSize DEF CellValue
  <2> QED BY <1>3, <2>1 DEF TextState
<1>5. Width * 0 = 0
  BY ScreenSize
<1>6. ShowsAt(TextInit, BlankSheet, 0)
  <2>1. \A k \in Cells : TextInit.screen[k] = BlankSheet.cells[Width * 0 + k + 1]
    <3>1. \A k \in Cells : Width * 0 + k + 1 \in 1 .. Above + Width
      BY <1>5, ScreenSize
    <3> QED BY <1>3, <3>1, BlankSheetType
  <2>2. Len(BlankSheet.cells) = Above + Width + Width * 0
    BY <1>5, BlankSheetType, ScreenSize
  <2>3. BlankSheet.row = TextInit.y + 0 /\ BlankSheet.col = TextInit.x
    BY <1>3, BlankSheetType
  <2> QED BY <2>1, <2>2, <2>3 DEF ShowsAt
<1> QED BY <1>1, <1>2, <1>4, <1>6

LEMMA ShowsEnd ==
  ASSUME NEW t \in TextState, NEW str, NEW l \in Nat, ShowsAt(t, Sheet(str), l)
  PROVE  ShowsEndOf(t, str)
<1> DEFINE sheet == Sheet(str)
           above == Len(sheet.cells) - Width * Height
           w == Width * l
<1>1. w \in Nat /\ l * Width = w /\ above = w
  <2>1. w \in Nat /\ l * Width = w
    BY Lengths
  <2>2. Len(sheet.cells) = Above + Width + w
    BY DEF ShowsAt
  <2> HIDE DEF w
  <2> QED BY <2>1, <2>2, ScreenSize
<1>2. t.screen \in [Cells -> CellValue] /\ t.y \in Nat /\ Width \in Nat
  BY ScreenSize DEF TextState
<1>3. \A k \in Cells : t.screen[k] = sheet.cells[w + k + 1]
  BY DEF ShowsAt
<1>4. sheet.row = t.y + l /\ t.x = sheet.col
  BY DEF ShowsAt
<1> HIDE DEF sheet
<1>5. t.screen = [k \in Cells |-> sheet.cells[above + k + 1]]
  <2> HIDE DEF above, w
  <2> QED BY <1>1, <1>2, <1>3
<1>6. t.y * Width = sheet.row * Width - above
  <2>1. sheet.row * Width = t.y * Width + l * Width
    BY <1>2, <1>4
  <2> DEFINE p == t.y * Width
  <2>2. p \in Int
    BY <1>2
  <2> HIDE DEF p, w, above
  <2>3. sheet.row * Width = p + w
    BY <1>1, <2>1 DEF p
  <2>4. p = sheet.row * Width - above
    BY <1>1, <2>2, <2>3
  <2> QED BY <2>4 DEF p
<1> HIDE DEF above
<1> QED BY <1>4, <1>5, <1>6 DEF ShowsEndOf, sheet, above

-----------------------------------------------------------------------------
(* Everything logged is a string of characters, and the screen shows the   *)
(* sheet it is typed on from some line on.                                 *)
ScreenInv ==
  /\ written \in Seq(Char) /\ text \in TextState
  /\ \E l \in Nat : ShowsAt(text, Sheet(written), l)

LEMMA StepScreenInv == CallsInv /\ ScreenInv /\ [Next]_vars => ScreenInv'
<1> SUFFICES ASSUME CallsInv, ScreenInv, [Next]_vars PROVE ScreenInv'
  OBVIOUS
<1>1. CASE WriteScreen
  <2> DEFINE str == Top.str
  <2>1. str \in Seq(Char) /\ text' = TextWrite(text, str) /\ written' = written \o str
    BY <1>1, TopRecord DEF WriteScreen
  <2> HIDE DEF str
  <2>2. written \o str \in Seq(Char)
    BY <2>1, ConcatProperties DEF ScreenInv
  <2>3. /\ TextWrite(text, str) \in TextState
        /\ \E l \in Nat : ShowsAt(TextWrite(text, str), Sheet(written \o str), l)
    BY <2>1, WriteShows DEF ScreenInv
  <2>4. text' \in TextState /\ written' \in Seq(Char)
    BY <2>1, <2>2, <2>3
  <2>5. \E l \in Nat : ShowsAt(text', Sheet(written'), l)
    BY <2>1, <2>3
  <2> QED BY <2>4, <2>5 DEF ScreenInv
<1>2. CASE UNCHANGED <<text, written>>
  BY <1>2 DEF ScreenInv
<1>3. CASE LogInit \/ Log \/ Grow \/ Granted \/ Refused \/ ReturnNull \/ Store
  BY <1>2, <1>3 DEF LogInit, Log, Grow, Granted, Refused, ReturnNull, Store
<1>4. CASE UNCHANGED vars
  BY <1>2, <1>4 DEF vars
<1> QED BY <1>1, <1>3, <1>4 DEF Next

(* The screen always shows the end of everything ever logged: whatever is  *)
(* written, however often text_putchar leaves a full line and text_scroll  *)
(* moves the screen up, and with a complaint of page_alloc's in between.   *)
THEOREM Shown == Spec => []ScreenShowsAll
<1>1. Init => CallsInv /\ ScreenInv
  BY InitCallsInv, InitShows DEF Init, ScreenInv
<1>2. CallsInv /\ ScreenInv /\ [Next]_vars => (CallsInv /\ ScreenInv)'
  BY StepCallsInv, StepScreenInv
<1>3. CallsInv /\ ScreenInv => ScreenShowsAll
  BY ShowsEnd DEF ScreenInv, ScreenShowsAll
<1> QED BY <1>1, <1>2, <1>3, PTL DEF Spec
=============================================================================
