---------------------------- MODULE FDdma_proofs ----------------------------
(***************************************************************************)
(* The DDMA driver for any number of channels and operations.  As long as  *)
(* no operation without the mutex has run beside another one, at most one  *)
(* task is inside an operation, so that each read and later write of a     *)
(* register is as good as one step.  What holds of the registers then is   *)
(* stated for each place of each operation.                                *)
(***************************************************************************)
EXTENDS FDdma, TLAPS

\* What is left of an operation after its first k instructions.
From(p, k) == SubSeq(p, k + 1, Len(p))

\* The mutex is held by the task of a locked operation; without overlap
\* there is one operation at a time.
LockInv ==
  /\ ~ready => AllIdle /\ locker = "null"
  /\ ready => locker # "null"
  /\ \A c \in Chans : ~Idle(c) <=> locker = c \/ c \in unlocked
  /\ ~overlap => \A c, d \in Chans : ~Idle(c) /\ ~Idle(d) => c = d

\* The controller and its interrupt are on or off together, ...
GlobalOK == "G" \in reg["CTL"] <=> "G" \in reg["MASK"]

\* ... the interrupts of enabled channels are open, and bind_status has the
\* channels of the bind register, of descriptor lists and all that are set
\* up, each but for the channels of X.
MaskOK(X) == en \subseteq reg["MASK"] \union X
BindOK(X) == reg["BIND"] \subseteq reg["bind_status"] \union X
StatusOK(X) == reg["bind_status"] \subseteq reg["BIND"] \union bdl \union X
SetUpOK(X) == owned \subseteq reg["bind_status"] \union X

\* Between operations.
RestState ==
  GlobalOK /\ MaskOK({}) /\ BindOK({}) /\ StatusOK({}) /\ SetUpOK({})

\* After k instructions of each operation.
StopState(k) ==
  /\ k = 0 => GlobalOK
  /\ k = 1 => "G" \notin reg["CTL"]
  /\ MaskOK({}) /\ BindOK({}) /\ StatusOK({}) /\ SetUpOK({})
SetupState(c, k) ==
  /\ k # 1 => GlobalOK
  /\ k = 1 => "G" \notin reg["CTL"]
  /\ k < 9 => c \notin reg["bind_status"]
  /\ k > 7 => c \in reg["BIND"]
  /\ k = 9 => c \in reg["bind_status"]
  /\ c \notin en /\ c \notin owned
  /\ MaskOK({}) /\ BindOK(IF k = 8 THEN {c} ELSE {})
  /\ StatusOK({}) /\ SetUpOK({})
RevokeState(c, k) ==
  /\ k > 0 => c \notin en
  /\ k > 3 => c \notin done
  /\ k > 4 => c \notin reg["BIND"]
  /\ k > 5 => c \notin reg["bind_status"]
  /\ GlobalOK /\ MaskOK({}) /\ BindOK({})
  /\ StatusOK(IF k = 5 THEN {c} ELSE {}) /\ SetUpOK(IF k = 6 THEN {c} ELSE {})
StartState(c, k) ==
  /\ k # 5 => GlobalOK
  /\ k = 5 => "G" \in reg["MASK"]
  /\ c \in owned
  /\ MaskOK(IF k = 3 THEN {c} ELSE {}) /\ BindOK({})
  /\ StatusOK({}) /\ SetUpOK({})
BdlState(c, k) ==
  /\ k = 1 => c \in reg["bind_status"]
  /\ GlobalOK /\ MaskOK({}) /\ BindOK({})
  /\ StatusOK(IF k = 1 THEN {c} ELSE {}) /\ SetUpOK({})

\* Where the task of channel c is.
Inside(c) ==
  \/ \E k \in 0 .. 1 : prog[c] = From(FDdmaStop, k) /\ StopState(k)
  \/ \E k \in 0 .. 9 : prog[c] = From(SetupChannel(c), k) /\ SetupState(c, k)
  \/ \E k \in 0 .. 6 : prog[c] = From(RevokeChannel(c), k) /\ RevokeState(c, k)
  \/ \E k \in 0 .. 5 : prog[c] = From(StartChannel(c), k) /\ StartState(c, k)
  \/ \E k \in 0 .. 1 : prog[c] = From(SetupBDLChannel(c), k) /\ BdlState(c, k)
  \/ prog[c] = StopChannel(c) /\ RestState

\* What a task has read is still in the register, no assertion fails, only
\* channels that are set up run or are done.
SoloInv ==
  ~overlap =>
    /\ ~failed /\ en \subseteq owned /\ done \subseteq owned
    /\ AllIdle => RestState
    /\ \A c \in Chans :
         /\ tmp[c] # Unread => tmp[c] = reg[Head(prog[c]).reg]
         /\ ~Idle(c) => Inside(c)

\* A list of instructions put together from two.
LEMMA Joined ==
  ASSUME NEW S, NEW x \in Seq(S), NEW y \in Seq(S), NEW z \in Seq(S),
         Len(z) = Len(x) + Len(y),
         \A i \in 1 .. Len(x) : z[i] = x[i],
         \A i \in 1 .. Len(y) : z[Len(x) + i] = y[i]
  PROVE  x \o y = z
  OBVIOUS

\* A list of four and one of two.
LEMMA Join42 ==
  ASSUME NEW a, NEW b, NEW c, NEW d, NEW e, NEW f
  PROVE  <<a, b, c, d>> \o <<e, f>> =
           <<a, b, c, d, e, f>>
<1> DEFINE S == {a, b, c, d, e, f}
           x == <<a, b, c, d>>
           y == <<e, f>>
           z == <<a, b, c, d, e, f>>
<1>1. /\ x \in Seq(S) /\ y \in Seq(S) /\ z \in Seq(S)
      /\ Len(z) = Len(x) + Len(y)
  OBVIOUS
<1>2. /\ \A p \in 1 .. Len(x) : z[p] = x[p]
      /\ \A p \in 1 .. Len(y) : z[Len(x) + p] = y[p]
  OBVIOUS
<1> HIDE DEF S, x, y, z
<1>3. x \o y = z
  BY <1>1, <1>2, Joined
<1> QED
  BY <1>3 DEF x, y, z

\* A list of one and one of four.
LEMMA Join14 ==
  ASSUME NEW a, NEW b, NEW c, NEW d, NEW e
  PROVE  <<a>> \o <<b, c, d, e>> =
           <<a, b, c, d, e>>
<1> DEFINE S == {a, b, c, d, e}
           x == <<a>>
           y == <<b, c, d, e>>
           z == <<a, b, c, d, e>>
<1>1. /\ x \in Seq(S) /\ y \in Seq(S) /\ z \in Seq(S)
      /\ Len(z) = Len(x) + Len(y)
  OBVIOUS
<1>2. /\ \A p \in 1 .. Len(x) : z[p] = x[p]
      /\ \A p \in 1 .. Len(y) : z[Len(x) + p] = y[p]
  OBVIOUS
<1> HIDE DEF S, x, y, z
<1>3. x \o y = z
  BY <1>1, <1>2, Joined
<1> QED
  BY <1>3 DEF x, y, z

\* A list of two and one of five.
LEMMA Join25 ==
  ASSUME NEW a, NEW b, NEW c, NEW d, NEW e, NEW f, NEW g
  PROVE  <<a, b>> \o <<c, d, e, f, g>> =
           <<a, b, c, d, e, f, g>>
<1> DEFINE S == {a, b, c, d, e, f, g}
           x == <<a, b>>
           y == <<c, d, e, f, g>>
           z == <<a, b, c, d, e, f, g>>
<1>1. /\ x \in Seq(S) /\ y \in Seq(S) /\ z \in Seq(S)
      /\ Len(z) = Len(x) + Len(y)
  OBVIOUS
<1>2. /\ \A p \in 1 .. Len(x) : z[p] = x[p]
      /\ \A p \in 1 .. Len(y) : z[Len(x) + p] = y[p]
  OBVIOUS
<1> HIDE DEF S, x, y, z
<1>3. x \o y = z
  BY <1>1, <1>2, Joined
<1> QED
  BY <1>3 DEF x, y, z

\* A list of seven and one of two.
LEMMA Join72 ==
  ASSUME NEW a, NEW b, NEW c, NEW d, NEW e, NEW f, NEW g, NEW h, NEW i
  PROVE  <<a, b, c, d, e, f, g>> \o <<h, i>> =
           <<a, b, c, d, e, f, g, h, i>>
<1> DEFINE S == {a, b, c, d, e, f, g, h, i}
           x == <<a, b, c, d, e, f, g>>
           y == <<h, i>>
           z == <<a, b, c, d, e, f, g, h, i>>
<1>1. /\ x \in Seq(S) /\ y \in Seq(S) /\ z \in Seq(S)
      /\ Len(z) = Len(x) + Len(y)
  OBVIOUS
<1>2. /\ \A p \in 1 .. Len(x) : z[p] = x[p]
      /\ \A p \in 1 .. Len(y) : z[Len(x) + p] = y[p]
  OBVIOUS
<1> HIDE DEF S, x, y, z
<1>3. x \o y = z
  BY <1>1, <1>2, Joined
<1> QED
  BY <1>3 DEF x, y, z

\* A list of nine and one of one.
LEMMA Join91 ==
  ASSUME NEW a, NEW b, NEW c, NEW d, NEW e, NEW f, NEW g, NEW h, NEW i, NEW j
  PROVE  <<a, b, c, d, e, f, g, h, i>> \o <<j>> =
           <<a, b, c, d, e, f, g, h, i, j>>
<1> DEFINE S == {a, b, c, d, e, f, g, h, i, j}
           x == <<a, b, c, d, e, f, g, h, i>>
           y == <<j>>
           z == <<a, b, c, d, e, f, g, h, i, j>>
<1>1. /\ x \in Seq(S) /\ y \in Seq(S) /\ z \in Seq(S)
      /\ Len(z) = Len(x) + Len(y)
  OBVIOUS
<1>2. /\ \A p \in 1 .. Len(x) : z[p] = x[p]
      /\ \A p \in 1 .. Len(y) : z[Len(x) + p] = y[p]
  OBVIOUS
<1> HIDE DEF S, x, y, z
<1>3. x \o y = z
  BY <1>1, <1>2, Joined
<1> QED
  BY <1>3 DEF x, y, z

\* A list of one and one of five.
LEMMA Join15 ==
  ASSUME NEW a, NEW b, NEW c, NEW d, NEW e, NEW f
  PROVE  <<a>> \o <<b, c, d, e, f>> =
           <<a, b, c, d, e, f>>
<1> DEFINE S == {a, b, c, d, e, f}
           x == <<a>>
           y == <<b, c, d, e, f>>
           z == <<a, b, c, d, e, f>>
<1>1. /\ x \in Seq(S) /\ y \in Seq(S) /\ z \in Seq(S)
      /\ Len(z) = Len(x) + Len(y)
  OBVIOUS
<1>2. /\ \A p \in 1 .. Len(x) : z[p] = x[p]
      /\ \A p \in 1 .. Len(y) : z[Len(x) + p] = y[p]
  OBVIOUS
<1> HIDE DEF S, x, y, z
<1>3. x \o y = z
  BY <1>1, <1>2, Joined
<1> QED
  BY <1>3 DEF x, y, z

\* A list of six and one of one.
LEMMA Join61 ==
  ASSUME NEW a, NEW b, NEW c, NEW d, NEW e, NEW f, NEW g
  PROVE  <<a, b, c, d, e, f>> \o <<g>> =
           <<a, b, c, d, e, f, g>>
<1> DEFINE S == {a, b, c, d, e, f, g}
           x == <<a, b, c, d, e, f>>
           y == <<g>>
           z == <<a, b, c, d, e, f, g>>
<1>1. /\ x \in Seq(S) /\ y \in Seq(S) /\ z \in Seq(S)
      /\ Len(z) = Len(x) + Len(y)
  OBVIOUS
<1>2. /\ \A p \in 1 .. Len(x) : z[p] = x[p]
      /\ \A p \in 1 .. Len(y) : z[Len(x) + p] = y[p]
  OBVIOUS
<1> HIDE DEF S, x, y, z
<1>3. x \o y = z
  BY <1>1, <1>2, Joined
<1> QED
  BY <1>3 DEF x, y, z

\* The instructions of the driver are of the types above.
LEMMA Typed ==
  ASSUME NEW c \in Chans
  PROVE  /\ \A o \in LocalOps : Do(o, c) \in Instructions
         /\ \A k \in Nat :
              [op |-> "disable", chan |-> c, skip |-> k] \in Instructions
         /\ \A r \in Registers \ {"CTL"} :
              Or(r, c) \in Instructions /\ And(r, c) \in Instructions
         /\ \A r \in {"CTL", "MASK"} :
              Or(r, "G") \in Instructions /\ And(r, "G") \in Instructions
  BY DEF Instructions, Do, Or, And, Registers, Bits, Width

\* The instruction that waits for the channel to stop.
Disable(c, k) == [op |-> "disable", chan |-> c, skip |-> k]

\* The operations, written out.
LEMMA Programs ==
  ASSUME NEW c \in Chans
  PROVE  /\ FDdmaStop = <<And("CTL", "G"), And("MASK", "G")>>
         /\ StopChannel(c) = <<Disable(c, 0)>>
         /\ SetupBDLChannel(c) = <<Or("bind_status", c), Do("own_bdl", c)>>
         /\ StartChannel(c) = <<Do("assert", c), Do("clear", c),
              Do("enable", c), Or("MASK", c), Or("MASK", "G"), Or("CTL", "G")>>
         /\ RevokeChannel(c) = <<Disable(c, 6), Disable(c, 5), And("MASK", c),
              Do("clear", c), And("BIND", c), And("bind_status", c),
              Do("release", c)>>
         /\ SetupChannel(c) = <<And("CTL", "G"), And("MASK", "G"),
              Disable(c, 4), And("MASK", c), Do("clear", c), And("BIND", c),
              And("bind_status", c), Or("BIND", c), Or("bind_status", c),
              Do("own", c)>>
<1>1. /\ FDdmaStop = <<And("CTL", "G"), And("MASK", "G")>>
      /\ StopChannel(c) = <<Disable(c, 0)>>
      /\ SetupBDLChannel(c) = <<Or("bind_status", c), Do("own_bdl", c)>>
      /\ FDdmaDisableChan(c, 6) = <<Disable(c, 6)>>
  BY DEF FDdmaStop, StopChannel, SetupBDLChannel, FDdmaDisableChan, Disable
<1>2. StartChannel(c) = <<Do("assert", c), Do("clear", c),
        Do("enable", c), Or("MASK", c), Or("MASK", "G"), Or("CTL", "G")>>
  BY Join42 DEF StartChannel, FDdmaChanActive, FDdmaStart
<1>3. \A k : FDdmaChanDeconfigure(c, k) = <<Disable(c, 4 + k),
        And("MASK", c), Do("clear", c), And("BIND", c), And("bind_status", c)>>
  BY Join14, Zenon DEF FDdmaChanDeconfigure, FDdmaDisableChan, Disable
<1>4. RevokeChannel(c) = <<Disable(c, 6), Disable(c, 5), And("MASK", c),
        Do("clear", c), And("BIND", c), And("bind_status", c),
        Do("release", c)>>
  <2>1. FDdmaChanDeconfigure(c, 1) = <<Disable(c, 5), And("MASK", c),
          Do("clear", c), And("BIND", c), And("bind_status", c)>>
    <3>1. 4 + 1 = 5
      OBVIOUS
    <3> QED
      BY <1>3, <3>1, Zenon
  <2>2. FDdmaDisableChan(c, 6) \o FDdmaChanDeconfigure(c, 1) =
          <<Disable(c, 6), Disable(c, 5), And("MASK", c),
            Do("clear", c), And("BIND", c), And("bind_status", c)>>
    <3>1. <<Disable(c, 6)>> \o <<Disable(c, 5), And("MASK", c),
            Do("clear", c), And("BIND", c), And("bind_status", c)>> =
          <<Disable(c, 6), Disable(c, 5), And("MASK", c),
            Do("clear", c), And("BIND", c), And("bind_status", c)>>
      BY Join15
    <3> QED
      BY <1>1, <2>1, <3>1, Zenon
  <2> QED
    BY <2>2, Join61, ZenonT(40) DEF RevokeChannel
<1>5. SetupChannel(c) = <<And("CTL", "G"), And("MASK", "G"),
        Disable(c, 4), And("MASK", c), Do("clear", c), And("BIND", c),
        And("bind_status", c), Or("BIND", c), Or("bind_status", c),
        Do("own", c)>>
  <2>1. FDdmaChanDeconfigure(c, 0) = <<Disable(c, 4), And("MASK", c),
          Do("clear", c), And("BIND", c), And("bind_status", c)>>
    <3>1. 4 + 0 = 4
      OBVIOUS
    <3> QED
      BY <1>3, <3>1, Zenon
  <2>2. FDdmaStop \o FDdmaChanDeconfigure(c, 0) =
          <<And("CTL", "G"), And("MASK", "G"), Disable(c, 4), And("MASK", c),
            Do("clear", c), And("BIND", c), And("bind_status", c)>>
    <3>1. <<And("CTL", "G"), And("MASK", "G")>> \o <<Disable(c, 4),
            And("MASK", c), Do("clear", c), And("BIND", c),
            And("bind_status", c)>> =
          <<And("CTL", "G"), And("MASK", "G"), Disable(c, 4), And("MASK", c),
            Do("clear", c), And("BIND", c), And("bind_status", c)>>
      BY Join25
    <3> QED
      BY <1>1, <2>1, <3>1, Zenon
  <2>3. FDdmaChanConfigure(c) =
          <<And("CTL", "G"), And("MASK", "G"), Disable(c, 4), And("MASK", c),
            Do("clear", c), And("BIND", c), And("bind_status", c),
            Or("BIND", c), Or("bind_status", c)>>
    <3>1. <<And("CTL", "G"), And("MASK", "G"), Disable(c, 4), And("MASK", c),
            Do("clear", c), And("BIND", c), And("bind_status", c)>> \o
          <<Or("BIND", c), Or("bind_status", c)>> =
          <<And("CTL", "G"), And("MASK", "G"), Disable(c, 4), And("MASK", c),
            Do("clear", c), And("BIND", c), And("bind_status", c),
            Or("BIND", c), Or("bind_status", c)>>
      BY Join72
    <3> QED
      BY <2>2, <3>1, Zenon DEF FDdmaChanConfigure
  <2> QED
    BY <2>3, Join91 DEF SetupChannel
<1> QED
  BY <1>1, <1>2, <1>4, <1>5, Zenon

\* Each operation is a list of instructions of a known length.
LEMMA ProgramsTyped ==
  ASSUME NEW c \in Chans
  PROVE  /\ FDdmaStop \in Seq(Instructions)
         /\ Len(FDdmaStop) = 2 /\ FDdmaStop # <<>>
         /\ StopChannel(c) \in Seq(Instructions)
         /\ Len(StopChannel(c)) = 1 /\ StopChannel(c) # <<>>
         /\ SetupBDLChannel(c) \in Seq(Instructions)
         /\ Len(SetupBDLChannel(c)) = 2 /\ SetupBDLChannel(c) # <<>>
         /\ StartChannel(c) \in Seq(Instructions)
         /\ Len(StartChannel(c)) = 6 /\ StartChannel(c) # <<>>
         /\ RevokeChannel(c) \in Seq(Instructions)
         /\ Len(RevokeChannel(c)) = 7 /\ RevokeChannel(c) # <<>>
         /\ SetupChannel(c) \in Seq(Instructions)
         /\ Len(SetupChannel(c)) = 10 /\ SetupChannel(c) # <<>>
<1>1. /\ Do("own", c) \in Instructions /\ Do("release", c) \in Instructions
      /\ Do("assert", c) \in Instructions /\ Do("clear", c) \in Instructions
      /\ Do("enable", c) \in Instructions /\ Do("own_bdl", c) \in Instructions
  BY Typed DEF LocalOps
<1>2. \A k \in Nat : Disable(c, k) \in Instructions
  BY Typed DEF Disable
<1>3. /\ Or("MASK", c) \in Instructions /\ And("MASK", c) \in Instructions
      /\ Or("BIND", c) \in Instructions /\ And("BIND", c) \in Instructions
      /\ Or("bind_status", c) \in Instructions
      /\ And("bind_status", c) \in Instructions
      /\ Or("MASK", "G") \in Instructions /\ And("MASK", "G") \in Instructions
      /\ Or("CTL", "G") \in Instructions /\ And("CTL", "G") \in Instructions
  BY Typed DEF Registers
<1>4. /\ FDdmaStop \in Seq(Instructions)
      /\ Len(FDdmaStop) = 2 /\ FDdmaStop # <<>>
  <2>1. FDdmaStop = <<And("CTL", "G"), And("MASK", "G")>>
    BY Programs, Zenon
  <2> QED
    BY <1>1, <1>2, <1>3, <2>1
<1>5. /\ StopChannel(c) \in Seq(Instructions)
      /\ Len(StopChannel(c)) = 1 /\ StopChannel(c) # <<>>
  <2>1. StopChannel(c) = <<Disable(c, 0)>>
    BY Programs, Zenon
  <2> QED
    BY <1>1, <1>2, <1>3, <2>1
<1>6. /\ SetupBDLChannel(c) \in Seq(Instructions)
      /\ Len(SetupBDLChannel(c)) = 2 /\ SetupBDLChannel(c) # <<>>
  <2>1. SetupBDLChannel(c) = <<Or("bind_status", c), Do("own_bdl", c)>>
    BY Programs, Zenon
  <2> QED
    BY <1>1, <1>2, <1>3, <2>1
<1>7. /\ StartChannel(c) \in Seq(Instructions)
      /\ Len(StartChannel(c)) = 6 /\ StartChannel(c) # <<>>
  <2>1. StartChannel(c) = <<Do("assert", c), Do("clear", c), Do("enable", c),
          Or("MASK", c), Or("MASK", "G"), Or("CTL", "G")>>
    BY Programs, Zenon
  <2> QED
    BY <1>1, <1>2, <1>3, <2>1
<1>8. /\ RevokeChannel(c) \in Seq(Instructions)
      /\ Len(RevokeChannel(c)) = 7 /\ RevokeChannel(c) # <<>>
  <2>1. RevokeChannel(c) = <<Disable(c, 6), Disable(c, 5), And("MASK", c),
          Do("clear", c), And("BIND", c), And("bind_status", c),
          Do("release", c)>>
    BY Programs, Zenon
  <2> QED
    BY <1>1, <1>2, <1>3, <2>1
<1>9. /\ SetupChannel(c) \in Seq(Instructions)
      /\ Len(SetupChannel(c)) = 10 /\ SetupChannel(c) # <<>>
  <2>1. SetupChannel(c) = <<And("CTL", "G"), And("MASK", "G"), Disable(c, 4),
          And("MASK", c), Do("clear", c), And("BIND", c),
          And("bind_status", c), Or("BIND", c), Or("bind_status", c),
          Do("own", c)>>
    BY Programs, Zenon
  <2> QED
    BY <1>1, <1>2, <1>3, <2>1
<1> QED
  BY <1>4, <1>5, <1>6, <1>7, <1>8, <1>9

\* What is left after k instructions.
LEMMA FromFacts ==
  ASSUME NEW p \in Seq(Instructions), NEW k \in Nat, k < Len(p)
  PROVE  /\ From(p, k) \in Seq(Instructions) /\ From(p, k) # <<>>
         /\ Head(From(p, k)) = p[k + 1]
         /\ \A j \in Nat : From(From(p, k), j) = From(p, k + j)
<1>1. Len(From(p, k)) = Len(p) - k /\ From(p, k) \in Seq(Instructions)
  BY DEF From
<1>2. From(p, k)[1] = p[k + 1]
  BY DEF From
<1>3. From(p, k) # <<>>
  BY <1>1
<1>4. \A j \in Nat : From(From(p, k), j) = From(p, k + j)
  BY DEF From
<1> QED
  BY <1>1, <1>2, <1>3, <1>4

\* Nothing is left at the end.
LEMMA FromEnds ==
  ASSUME NEW p \in Seq(Instructions)
  PROVE  /\ From(p, 0) = p
         /\ \A k \in Nat : k >= Len(p) => From(p, k) = <<>>
  BY DEF From

\* An operation advances by some instructions.
LEMMA Advanced ==
  ASSUME TypeOK, NEW c \in Chans, NEW k \in Nat, Advance(c, k)
  PROVE  /\ prog' \in [Chans -> Seq(Instructions)]
         /\ prog'[c] = From(prog[c], k)
         /\ \A d \in Chans \ {c} : prog'[d] = prog[d]
         /\ locker' = IF prog'[c] = <<>> /\ locker = c THEN "free" ELSE locker
         /\ unlocked' = IF prog'[c] = <<>> THEN unlocked \ {c} ELSE unlocked
<1>1. prog[c] \in Seq(Instructions)
  BY DEF TypeOK
<1>2. From(prog[c], k) \in Seq(Instructions)
  BY <1>1 DEF From
<1>3. prog' = [prog EXCEPT ![c] = From(prog[c], k)]
  BY DEF Advance, From
<1>4. prog'[c] = From(prog[c], k)
  BY <1>3 DEF TypeOK
<1>5. /\ locker' = IF prog'[c] = <<>> /\ locker = c THEN "free" ELSE locker
      /\ unlocked' = IF prog'[c] = <<>> THEN unlocked \ {c} ELSE unlocked
  BY <1>4 DEF Advance, From
<1> QED
  BY <1>2, <1>3, <1>4, <1>5 DEF TypeOK

\* The first instruction of an operation is one.
LEMMA HeadTyped ==
  ASSUME TypeOK, NEW c \in Chans, ~Idle(c)
  PROVE  Head(prog[c]) \in Instructions
<1>1. prog[c] \in Seq(Instructions) /\ prog[c] # <<>>
  BY DEF TypeOK, Idle
<1> QED
  BY <1>1

\* The types after an operation has advanced: what a task has read, it reads
\* for the instruction it is at.
LEMMA AdvancedTypes ==
  ASSUME TypeOK, NEW c \in Chans, NEW k \in Nat, Advance(c, k),
         tmp' \in [Chans -> (SUBSET Bits) \union {Unread}], tmp'[c] = Unread,
         \A d \in Chans \ {c} : tmp'[d] = tmp[d]
  PROVE  /\ prog' \in [Chans -> Seq(Instructions)]
         /\ locker' \in Chans \union {"free", "null"}
         /\ unlocked' \subseteq Chans
         /\ \A d \in Chans :
              tmp'[d] # Unread =>
                /\ ~Idle(d)' /\ Head(prog'[d]).op \in {"or", "and"}
                /\ tmp'[d] \subseteq Width(Head(prog'[d]).reg)
<1>1. /\ prog' \in [Chans -> Seq(Instructions)]
      /\ \A d \in Chans \ {c} : prog'[d] = prog[d]
      /\ locker' = IF prog'[c] = <<>> /\ locker = c THEN "free" ELSE locker
      /\ unlocked' = IF prog'[c] = <<>> THEN unlocked \ {c} ELSE unlocked
  BY Advanced
<1>2. locker' \in Chans \union {"free", "null"} /\ unlocked' \subseteq Chans
  BY <1>1 DEF TypeOK
<1>3. ASSUME NEW d \in Chans, tmp'[d] # Unread
      PROVE  /\ ~Idle(d)' /\ Head(prog'[d]).op \in {"or", "and"}
             /\ tmp'[d] \subseteq Width(Head(prog'[d]).reg)
  <2>1. d # c /\ tmp[d] = tmp'[d] /\ prog'[d] = prog[d]
    BY <1>1, <1>3
  <2> QED
    BY <1>3, <2>1 DEF TypeOK, Idle
<1> QED
  BY <1>1, <1>2, <1>3

\* A call starts one of the operations, with or without the mutex.
Starts(c, p) ==
  /\ Locked(c) \/ Unlocked(c)
  /\ Begin(c, p) /\ running' \in {running, running \ {c}}

\* Every call of the interface does.
LEMMA CallStarts ==
  ASSUME NEW c \in Chans, Call(c)
  PROVE  \E p \in Seq(Instructions) : p # <<>> /\ Starts(c, p)
<1>2. /\ FDdmaStop \in Seq(Instructions) /\ FDdmaStop # <<>>
      /\ StopChannel(c) \in Seq(Instructions) /\ StopChannel(c) # <<>>
      /\ SetupBDLChannel(c) \in Seq(Instructions) /\ SetupBDLChannel(c) # <<>>
      /\ StartChannel(c) \in Seq(Instructions) /\ StartChannel(c) # <<>>
      /\ RevokeChannel(c) \in Seq(Instructions) /\ RevokeChannel(c) # <<>>
      /\ SetupChannel(c) \in Seq(Instructions) /\ SetupChannel(c) # <<>>
  BY ProgramsTyped
<1>3. CASE FFreeRTOSDdmaSetupChannel(c)
  BY <1>2, <1>3 DEF FFreeRTOSDdmaSetupChannel, Starts
<1>4. CASE FFreeRTOSDdmaRevokeChannel(c)
  BY <1>2, <1>4 DEF FFreeRTOSDdmaRevokeChannel, Starts
<1>5. CASE FFreeRTOSDdmaStartChannel(c) \/ FFreeRTOSDdmaBDLStartChannel(c)
  BY <1>2, <1>5
     DEF FFreeRTOSDdmaStartChannel, FFreeRTOSDdmaBDLStartChannel, Starts
<1>6. CASE FFreeRTOSDdmaStopChannel(c)
  BY <1>2, <1>6 DEF FFreeRTOSDdmaStopChannel, Starts
<1>7. CASE FFreeRTOSDdmaStop(c)
  BY <1>2, <1>7 DEF FFreeRTOSDdmaStop, Starts
<1>8. CASE FFreeRTOSDdmaSetupBDLChannel(c)
  BY <1>2, <1>8 DEF FFreeRTOSDdmaSetupBDLChannel, Starts
<1> QED
  BY <1>3, <1>4, <1>5, <1>6, <1>7, <1>8 DEF Call

\* A step of an operation reads a register or advances the operation.
LEMMA TaskAdvances ==
  ASSUME TypeOK, NEW c \in Chans, Task(c)
  PROVE  /\ ~Idle(c) /\ UNCHANGED <<ready, overlap>>
         /\ ReadReg(c) \/ \E k \in Nat : Advance(c, k)
<1>1. CASE ReadReg(c)
  BY <1>1 DEF ReadReg, At, histVars
<1>2. CASE DisableChan(c)
  <2>1. Head(prog[c]) \in Instructions /\ Head(prog[c]).op = "disable"
    BY <1>2, HeadTyped DEF DisableChan, At
  <2>2. Head(prog[c]).skip \in Nat
    BY <2>1 DEF Instructions, LocalOps
  <2> QED
    BY <1>2, <2>2 DEF DisableChan, At
<1>3. CASE WriteReg(c)
  BY <1>3 DEF WriteReg, At
<1>4. CASE ClearChanIrq(c) \/ EnableChan(c) \/ AssertBound(c) \/ Own(c)
  BY <1>4 DEF ClearChanIrq, EnableChan, AssertBound, Own, At
<1> QED
  BY <1>1, <1>2, <1>3, <1>4 DEF Task

\* Where a task has read nothing.
LEMMA NothingRead ==
  ASSUME TypeOK, NEW c \in Chans, Head(prog[c]).op \notin {"or", "and"}
  PROVE  tmp[c] = Unread
  BY DEF TypeOK

\* Every step keeps the types.
LEMMA TypeStep == TypeOK /\ [Next]_vars => TypeOK'
<1> SUFFICES ASSUME TypeOK, [Next]_vars PROVE TypeOK'
  OBVIOUS
<1> USE DdmaAssumption DEF TypeOK, Idle, histVars
<1>1. CASE FFreeRTOSDdmaInit
  BY <1>1 DEF FFreeRTOSDdmaInit, FDdmaReset
<1>2. CASE FFreeRTOSDdmaDeinit
  BY <1>2 DEF FFreeRTOSDdmaDeinit, FDdmaReset
<1>3. ASSUME NEW c \in Chans, Call(c) PROVE TypeOK'
  <2>1. PICK p \in Seq(Instructions) : p # <<>> /\ Starts(c, p)
    BY <1>3, CallStarts
  <2>2. /\ prog' = [prog EXCEPT ![c] = p] /\ Idle(c) /\ ops' \in 0 .. MaxOps
        /\ UNCHANGED <<ready, reg, en, work, done, tmp, owned, bdl, failed>>
    BY <2>1 DEF Starts, Begin
  <2>3. /\ locker' \in Chans \union {"free", "null"}
        /\ unlocked' \subseteq Chans /\ running' \subseteq Chans
    BY <2>1 DEF Starts, Locked, Unlocked, TakeSema
  <2>4. overlap' \in BOOLEAN
    BY <2>1 DEF Starts, Locked, Unlocked
  <2>5. prog' \in [Chans -> Seq(Instructions)]
    BY <2>2
  <2>6. tmp[c] = Unread /\ \A d \in Chans \ {c} : prog'[d] = prog[d]
    BY <2>2
  <2> QED
    BY <2>2, <2>3, <2>4, <2>5, <2>6
<1>4. ASSUME NEW c \in Chans, ReadReg(c) PROVE TypeOK'
  <2>1. /\ ~Idle(c) /\ Head(prog[c]).op \in {"or", "and"}
        /\ tmp' = [tmp EXCEPT ![c] = reg[Head(prog[c]).reg]]
        /\ UNCHANGED <<ready, locker, reg, en, work, done, prog, ops, owned,
                       bdl, running, unlocked, overlap, failed>>
    BY <1>4 DEF ReadReg, At
  <2>2. Head(prog[c]).reg \in Registers
    BY <2>1, HeadTyped DEF Instructions, LocalOps
  <2>3. /\ reg[Head(prog[c]).reg] \subseteq Bits
        /\ reg[Head(prog[c]).reg] \subseteq Width(Head(prog[c]).reg)
    BY <2>2
  <2>4. tmp' \in [Chans -> (SUBSET Bits) \union {Unread}]
    BY <2>1, <2>3
  <2>5. \A d \in Chans :
          tmp'[d] # Unread => /\ ~Idle(d) /\ Head(prog[d]).op \in {"or", "and"}
                              /\ tmp'[d] \subseteq Width(Head(prog[d]).reg)
    BY <2>1, <2>3
  <2> QED
    BY <2>1, <2>4, <2>5
<1>5. ASSUME NEW c \in Chans, WriteReg(c) PROVE TypeOK'
  <2> DEFINE i == Head(prog[c])
             new == IF i.op = "or" THEN tmp[c] \union {i.bit}
                                   ELSE tmp[c] \ {i.bit}
  <2>1. /\ ~Idle(c) /\ i.op \in {"or", "and"} /\ tmp[c] # Unread
        /\ reg' = [reg EXCEPT ![i.reg] = new]
        /\ tmp' = [tmp EXCEPT ![c] = Unread] /\ Advance(c, 1)
        /\ UNCHANGED <<ready, en, work, done, ops, owned, bdl, running,
                       overlap, failed>>
    BY <1>5 DEF WriteReg, At
  <2>2. i.reg \in Registers /\ i.bit \in Width(i.reg) /\ i.bit \in Bits
    BY <2>1, HeadTyped DEF Instructions, LocalOps
  <2>3. new \subseteq Bits /\ new \subseteq Width(i.reg)
    <3>1. tmp[c] # Unread /\ tmp[c] \in (SUBSET Bits) \union {Unread}
      BY <2>1
    <3>2. tmp[c] \subseteq Bits
      BY <3>1
    <3>3. tmp[c] \subseteq Width(i.reg)
      BY <3>1
    <3> QED
      BY <2>2, <3>2, <3>3
  <2> HIDE DEF new, i
  <2>4. reg' \in [Registers -> SUBSET Bits]
    BY <2>1, <2>2, <2>3
  <2>5. \A r \in Registers : reg'[r] \subseteq Width(r)
    BY <2>1, <2>2, <2>3
  <2>6. /\ tmp' \in [Chans -> (SUBSET Bits) \union {Unread}]
        /\ tmp'[c] = Unread
        /\ \A d \in Chans \ {c} : tmp'[d] = tmp[d]
    <3>1. tmp \in [Chans -> (SUBSET Bits) \union {Unread}]
      OBVIOUS
    <3> HIDE DEF TypeOK
    <3>2. tmp' = [tmp EXCEPT ![c] = Unread]
      BY <2>1
    <3>3. tmp' \in [Chans -> (SUBSET Bits) \union {Unread}]
      BY <3>1, <3>2
    <3> QED
      BY <3>1, <3>2, <3>3
  <2>7. /\ prog' \in [Chans -> Seq(Instructions)]
        /\ locker' \in Chans \union {"free", "null"}
        /\ unlocked' \subseteq Chans
        /\ \A d \in Chans :
             tmp'[d] # Unread =>
               /\ ~Idle(d)' /\ Head(prog'[d]).op \in {"or", "and"}
               /\ tmp'[d] \subseteq Width(Head(prog'[d]).reg)
    BY <2>1, <2>6, AdvancedTypes DEF TypeOK
  <2> QED
    BY <2>1, <2>4, <2>5, <2>6, <2>7
<1>6. ASSUME NEW c \in Chans, DisableChan(c) PROVE TypeOK'
  <2>1. /\ Head(prog[c]).op \notin {"or", "and"}
        /\ UNCHANGED <<ready, reg, tmp, ops>>
        /\ UNCHANGED <<work, done, owned, bdl, running, overlap, failed>>
        /\ en' \subseteq Chans
    BY <1>6 DEF DisableChan, At
  <2>2. PICK k \in Nat : Advance(c, k)
    BY <1>6, <2>1, TaskAdvances DEF Task, ReadReg, At
  <2>3. tmp'[c] = Unread
    BY <2>1, NothingRead
  <2> QED
    BY <2>1, <2>2, <2>3, AdvancedTypes
<1>7. ASSUME NEW c \in Chans, ClearChanIrq(c) PROVE TypeOK'
  <2>1. /\ Head(prog[c]).op \notin {"or", "and"}
        /\ UNCHANGED <<ready, reg, tmp, ops>>
        /\ UNCHANGED <<en, work, owned, bdl, running, overlap, failed>>
        /\ done' \subseteq Chans
    BY <1>7 DEF ClearChanIrq, At
  <2>2. PICK k \in Nat : Advance(c, k)
    BY <1>7, <2>1, TaskAdvances DEF Task, ReadReg, At
  <2>3. tmp'[c] = Unread
    BY <2>1, NothingRead
  <2> QED
    BY <2>1, <2>2, <2>3, AdvancedTypes
<1>8. ASSUME NEW c \in Chans, EnableChan(c) PROVE TypeOK'
  <2>1. /\ Head(prog[c]).op \notin {"or", "and"}
        /\ UNCHANGED <<ready, reg, tmp, ops>>
        /\ UNCHANGED <<done, owned, bdl, overlap, failed>>
        /\ en' \subseteq Chans /\ work' \subseteq Chans
        /\ running' \subseteq Chans
    BY <1>8 DEF EnableChan, At
  <2>2. PICK k \in Nat : Advance(c, k)
    BY <1>8, <2>1, TaskAdvances DEF Task, ReadReg, At
  <2>3. tmp'[c] = Unread
    BY <2>1, NothingRead
  <2> QED
    BY <2>1, <2>2, <2>3, AdvancedTypes
<1>9. ASSUME NEW c \in Chans, AssertBound(c) PROVE TypeOK'
  <2>1. /\ Head(prog[c]).op \notin {"or", "and"}
        /\ UNCHANGED <<ready, reg, tmp, ops>>
        /\ UNCHANGED <<en, work, done, owned, bdl, running, overlap>>
        /\ failed' \in BOOLEAN
    BY <1>9 DEF AssertBound, At
  <2>2. PICK k \in Nat : Advance(c, k)
    BY <1>9, <2>1, TaskAdvances DEF Task, ReadReg, At
  <2>3. tmp'[c] = Unread
    BY <2>1, NothingRead
  <2> QED
    BY <2>1, <2>2, <2>3, AdvancedTypes
<1>10. ASSUME NEW c \in Chans, Own(c) PROVE TypeOK'
  <2>1. /\ Head(prog[c]).op \notin {"or", "and"}
        /\ UNCHANGED <<ready, reg, tmp, ops>>
        /\ UNCHANGED <<en, work, done, running, overlap, failed>>
        /\ owned' \subseteq Chans /\ bdl' \subseteq Chans
    BY <1>10 DEF Own, At
  <2>2. PICK k \in Nat : Advance(c, k)
    BY <1>10, <2>1, TaskAdvances DEF Task, ReadReg, At
  <2>3. tmp'[c] = Unread
    BY <2>1, NothingRead
  <2> QED
    BY <2>1, <2>2, <2>3, AdvancedTypes
<1>11. ASSUME NEW c \in Chans, Transfer(c) PROVE TypeOK'
  BY <1>11 DEF Transfer
<1>12. CASE FDdmaIrqHandler
  BY <1>12 DEF FDdmaIrqHandler
<1>13. CASE UNCHANGED vars
  BY <1>13 DEF vars
<1> QED
  BY <1>1, <1>2, <1>3, <1>4, <1>5, <1>6, <1>7, <1>8, <1>9, <1>10, <1>11,
     <1>12, <1>13 DEF Next, Task

\* Every step keeps the mutex with the task of a locked operation.
LEMMA LockStep == TypeOK /\ LockInv /\ [Next]_vars => LockInv'
<1> SUFFICES ASSUME TypeOK, LockInv, [Next]_vars PROVE LockInv'
  OBVIOUS
<1> USE DdmaAssumption DEF LockInv, AllIdle
<1>1. CASE FFreeRTOSDdmaInit
  BY <1>1 DEF FFreeRTOSDdmaInit, FDdmaReset, Idle
<1>2. CASE FFreeRTOSDdmaDeinit
  BY <1>2 DEF FFreeRTOSDdmaDeinit, FDdmaReset, Idle
<1>3. ASSUME NEW c \in Chans, Call(c) PROVE LockInv'
  <2>1. PICK p \in Seq(Instructions) : p # <<>> /\ Starts(c, p)
    BY <1>3, CallStarts
  <2>2. /\ ready /\ ready' /\ Idle(c)
        /\ prog' = [prog EXCEPT ![c] = p]
    BY <2>1 DEF Starts, Begin, TypeOK
  <2>3. ~Idle(c)' /\ \A d \in Chans \ {c} : Idle(d)' <=> Idle(d)
    BY <2>1, <2>2 DEF Idle, TypeOK
  <2>4. CASE Locked(c)
    <3>1. /\ locker = "free" /\ locker' = c /\ unlocked' = unlocked
          /\ overlap' <=> overlap \/ unlocked # {}
      BY <2>4 DEF Locked, TakeSema
    <3>2. ~overlap' => \A d \in Chans : Idle(d)
      BY <3>1
    <3> QED
      BY <2>2, <2>3, <3>1, <3>2
  <2>5. CASE Unlocked(c)
    <3>1. /\ unlocked' = unlocked \union {c} /\ locker' = locker
          /\ overlap' <=> overlap \/ ~AllIdle
      BY <2>5 DEF Unlocked
    <3> QED
      BY <2>2, <2>3, <3>1
  <2> QED
    BY <2>1, <2>4, <2>5 DEF Starts
<1>4. ASSUME NEW c \in Chans, Task(c) PROVE LockInv'
  <2>1. CASE ReadReg(c)
    BY <2>1 DEF ReadReg, Idle, histVars
  <2>2. ASSUME NEW k \in Nat, Advance(c, k) PROVE LockInv'
    <3>1. /\ \A d \in Chans \ {c} : Idle(d)' <=> Idle(d)
          /\ locker' = IF Idle(c)' /\ locker = c THEN "free" ELSE locker
          /\ unlocked' = IF Idle(c)' THEN unlocked \ {c} ELSE unlocked
      BY <2>2, Advanced DEF Idle
    <3>2. ~Idle(c) /\ UNCHANGED <<ready, overlap>>
      BY <1>4, TaskAdvances
    <3> QED
      BY <3>1, <3>2
  <2> QED
    BY <1>4, <2>1, <2>2, TaskAdvances
<1>5. ASSUME NEW c \in Chans, Transfer(c) PROVE LockInv'
  BY <1>5 DEF Transfer, Idle, histVars
<1>6. CASE FDdmaIrqHandler
  BY <1>6 DEF FDdmaIrqHandler, Idle
<1>7. CASE UNCHANGED vars
  BY <1>7 DEF vars, Idle, histVars
<1> QED
  BY <1>1, <1>2, <1>3, <1>4, <1>5, <1>6, <1>7 DEF Next

-----------------------------------------------------------------------------
(* One operation at a time *)

\* What instruction i of the task of channel c does.
Written(i, r) ==
  IF i.op \in {"or", "and"} /\ i.reg = r
    THEN IF i.op = "or" THEN reg[r] \union {i.bit} ELSE reg[r] \ {i.bit}
    ELSE reg[r]
Does(c, i) ==
  /\ \A r \in Registers : reg'[r] = Written(i, r)
  /\ en' = IF i.op = "disable" THEN en \ {c}
           ELSE IF i.op = "enable" THEN en \union {c} ELSE en
  /\ done' = IF i.op = "clear" THEN done \ {c} ELSE done
  /\ owned' = IF i.op = "release" THEN owned \ {c}
              ELSE IF i.op \in {"own", "own_bdl"} THEN owned \union {c}
              ELSE owned
  /\ bdl' = IF i.op = "own_bdl" THEN bdl \union {c}
            ELSE IF i.op \in {"own", "release"} THEN bdl \ {c} ELSE bdl
  /\ failed' <=> i.op = "assert" /\ c \notin reg["bind_status"]

\* A task that is alone at instruction i reads for it, does it, or leaves out
\* some instructions because the channel has not stopped.
LEMMA TaskStep ==
  ASSUME TypeOK, ~failed, NEW c \in Chans, Task(c),
         tmp[c] # Unread => tmp[c] = reg[Head(prog[c]).reg]
  PROVE  \/ UNCHANGED <<reg, en, done, owned, bdl, failed, prog>>
         \/ /\ Does(c, Head(prog[c])) /\ prog'[c] = From(prog[c], 1)
         \/ /\ Head(prog[c]).op = "disable" /\ c \in en
            /\ prog'[c] = From(prog[c], 1 + Head(prog[c]).skip)
            /\ UNCHANGED <<reg, en, done, owned, bdl, failed>>
<1> DEFINE i == Head(prog[c])
<1>1. i \in Instructions
  BY TaskAdvances, HeadTyped
<1>2. CASE ReadReg(c)
  BY <1>2 DEF ReadReg, histVars
<1>3. CASE WriteReg(c)
  <2>1. /\ i.op \in {"or", "and"} /\ tmp[c] = reg[i.reg] /\ Advance(c, 1)
        /\ reg' = [reg EXCEPT ![i.reg] = IF i.op = "or"
                                           THEN tmp[c] \union {i.bit}
                                           ELSE tmp[c] \ {i.bit}]
        /\ UNCHANGED <<en, done, owned, bdl, failed>>
    BY <1>3 DEF WriteReg, At
  <2>2. i.reg \in Registers /\ reg \in [Registers -> SUBSET Bits]
    BY <1>1, <2>1 DEF Instructions, LocalOps, TypeOK
  <2> HIDE DEF i
  <2>3. \A r \in Registers : reg'[r] = Written(i, r)
    BY <2>1, <2>2 DEF Written
  <2>4. Does(c, i)
    BY <2>1, <2>3 DEF Does
  <2>5. prog'[c] = From(prog[c], 1)
    BY <2>1, Advanced
  <2> QED
    BY <2>4, <2>5 DEF i
<1>4. ASSUME UNCHANGED reg, i.op \notin {"or", "and"}
      PROVE  \A r \in Registers : reg'[r] = Written(i, r)
  BY <1>4 DEF Written
<1>5. CASE DisableChan(c)
  <2>1. i.op = "disable" /\ UNCHANGED <<reg, done, owned, bdl, failed>>
    BY <1>5 DEF DisableChan, At
  <2>2. i.skip \in Nat
    BY <1>1, <2>1 DEF Instructions, LocalOps
  <2>3. CASE en' = en \ {c} /\ Advance(c, 1)
    <3>1. prog'[c] = From(prog[c], 1)
      BY <2>3, Advanced
    <3>2. Does(c, i)
      BY <1>4, <2>1, <2>3 DEF Does
    <3> QED
      BY <3>1, <3>2
  <2>4. CASE c \in en /\ UNCHANGED en /\ Advance(c, 1 + i.skip)
    <3>1. prog'[c] = From(prog[c], 1 + i.skip)
      BY <2>2, <2>4, Advanced
    <3> QED
      BY <2>1, <2>4, <3>1
  <2> QED
    BY <1>5, <2>3, <2>4 DEF DisableChan
<1>6. CASE ClearChanIrq(c) \/ EnableChan(c) \/ AssertBound(c) \/ Own(c)
  <2>1. Advance(c, 1) /\ UNCHANGED reg /\ i.op \notin {"or", "and"}
    BY <1>6 DEF ClearChanIrq, EnableChan, AssertBound, Own, At
  <2>2. prog'[c] = From(prog[c], 1)
    BY <2>1, Advanced
  <2>3. ASSUME ClearChanIrq(c) PROVE Does(c, i)
    BY <1>4, <2>1, <2>3 DEF Does, ClearChanIrq, At
  <2>4. ASSUME EnableChan(c) PROVE Does(c, i)
    BY <1>4, <2>1, <2>4 DEF Does, EnableChan, At
  <2>5. ASSUME AssertBound(c) PROVE Does(c, i)
    BY <1>4, <2>1, <2>5 DEF Does, AssertBound, At
  <2>6. ASSUME Own(c) PROVE Does(c, i)
    BY <1>4, <2>1, <2>6 DEF Does, Own, At
  <2>7. Does(c, i)
    BY <1>6, <2>3, <2>4, <2>5, <2>6
  <2> QED
    BY <2>2, <2>7
<1> QED
  BY <1>2, <1>3, <1>5, <1>6 DEF Task

\* No assertion has failed; only channels that are set up run or are done.
CallsOK == ~failed /\ en \subseteq owned /\ done \subseteq owned

\* Each instruction of FDdmaStop leads from its state to the next,
\* the last one to the state between operations.
LEMMA StopStep ==
  ASSUME TypeOK, CallsOK, NEW c \in Chans, NEW k \in 0 .. 1,
         StopState(k), Does(c, FDdmaStop[k + 1])
  PROVE  CallsOK' /\ IF k = 1 THEN RestState' ELSE StopState(k + 1)'
<1> USE DdmaAssumption DEF CallsOK, Does, Written, Registers, GlobalOK, MaskOK,
      BindOK, StatusOK, SetUpOK, StopState, RestState
<1>1. CASE k = 0
  <2>1. FDdmaStop[k + 1] = And("CTL", "G")
    BY <1>1, Programs
  <2> QED
    BY <1>1, <2>1 DEF And
<1>2. CASE k = 1
  <2>1. FDdmaStop[k + 1] = And("MASK", "G")
    BY <1>2, Programs
  <2>2. "G" \notin en
    BY DEF TypeOK
  <2> QED
    BY <1>2, <2>1, <2>2 DEF And
<1> QED
  BY <1>1, <1>2

\* Each instruction of SetupBDLChannel leads from its state to the next,
\* the last one to the state between operations.
LEMMA BdlStep ==
  ASSUME TypeOK, CallsOK, NEW c \in Chans, NEW k \in 0 .. 1,
         BdlState(c, k), Does(c, SetupBDLChannel(c)[k + 1])
  PROVE  CallsOK' /\ IF k = 1 THEN RestState' ELSE BdlState(c, k + 1)'
<1> USE DdmaAssumption DEF CallsOK, Does, Written, Registers, GlobalOK, MaskOK,
      BindOK, StatusOK, SetUpOK, BdlState, RestState
<1>1. CASE k = 0
  <2>1. SetupBDLChannel(c)[k + 1] = Or("bind_status", c)
    BY <1>1, Programs
  <2> QED
    BY <1>1, <2>1 DEF Or
<1>2. CASE k = 1
  <2>1. SetupBDLChannel(c)[k + 1] = Do("own_bdl", c)
    BY <1>2, Programs
  <2> QED
    BY <1>2, <2>1 DEF Do
<1> QED
  BY <1>1, <1>2

\* Each instruction of StartChannel leads from its state to the next,
\* the last one to the state between operations.
LEMMA StartStep ==
  ASSUME TypeOK, CallsOK, NEW c \in Chans, NEW k \in 0 .. 5,
         StartState(c, k), Does(c, StartChannel(c)[k + 1])
  PROVE  CallsOK' /\ IF k = 5 THEN RestState' ELSE StartState(c, k + 1)'
<1> USE DdmaAssumption DEF CallsOK, Does, Written, Registers, GlobalOK, MaskOK,
      BindOK, StatusOK, SetUpOK, StartState, RestState
<1>1. CASE k = 0
  <2>1. StartChannel(c)[k + 1] = Do("assert", c)
    BY <1>1, Programs
  <2> QED
    BY <1>1, <2>1 DEF Do
<1>2. CASE k = 1
  <2>1. StartChannel(c)[k + 1] = Do("clear", c)
    BY <1>2, Programs
  <2> QED
    BY <1>2, <2>1 DEF Do
<1>3. CASE k = 2
  <2>1. StartChannel(c)[k + 1] = Do("enable", c)
    BY <1>3, Programs
  <2> QED
    BY <1>3, <2>1 DEF Do
<1>4. CASE k = 3
  <2>1. StartChannel(c)[k + 1] = Or("MASK", c)
    BY <1>4, Programs
  <2> QED
    BY <1>4, <2>1 DEF Or
<1>5. CASE k = 4
  <2>1. StartChannel(c)[k + 1] = Or("MASK", "G")
    BY <1>5, Programs
  <2> QED
    BY <1>5, <2>1 DEF Or
<1>6. CASE k = 5
  <2>1. StartChannel(c)[k + 1] = Or("CTL", "G")
    BY <1>6, Programs
  <2> QED
    BY <1>6, <2>1 DEF Or
<1> HIDE DdmaAssumption DEF CallsOK, Does, Written, Registers, GlobalOK, MaskOK,
      BindOK, StatusOK, SetUpOK, StartState, RestState
<1> QED
  BY <1>1, <1>2, <1>3, <1>4, <1>5, <1>6

\* Each instruction of RevokeChannel leads from its state to the next,
\* the last one to the state between operations.
LEMMA RevokeStep ==
  ASSUME TypeOK, CallsOK, NEW c \in Chans, NEW k \in 0 .. 6,
         RevokeState(c, k), Does(c, RevokeChannel(c)[k + 1])
  PROVE  CallsOK' /\ IF k = 6 THEN RestState' ELSE RevokeState(c, k + 1)'
<1> USE DdmaAssumption DEF CallsOK, Does, Written, Registers, GlobalOK, MaskOK,
      BindOK, StatusOK, SetUpOK, RevokeState, RestState
<1>1. CASE k = 0
  <2>1. RevokeChannel(c)[k + 1] = Disable(c, 6)
    BY <1>1, Programs
  <2> QED
    BY <1>1, <2>1 DEF Disable
<1>2. CASE k = 1
  <2>1. RevokeChannel(c)[k + 1] = Disable(c, 5)
    BY <1>2, Programs
  <2> QED
    BY <1>2, <2>1 DEF Disable
<1>3. CASE k = 2
  <2>1. RevokeChannel(c)[k + 1] = And("MASK", c)
    BY <1>3, Programs
  <2> QED
    BY <1>3, <2>1 DEF And
<1>4. CASE k = 3
  <2>1. RevokeChannel(c)[k + 1] = Do("clear", c)
    BY <1>4, Programs
  <2> QED
    BY <1>4, <2>1 DEF Do
<1>5. CASE k = 4
  <2>1. RevokeChannel(c)[k + 1] = And("BIND", c)
    BY <1>5, Programs
  <2> QED
    BY <1>5, <2>1 DEF And
<1>6. CASE k = 5
  <2>1. RevokeChannel(c)[k + 1] = And("bind_status", c)
    BY <1>6, Programs
  <2> QED
    BY <1>6, <2>1 DEF And
<1>7. CASE k = 6
  <2>1. RevokeChannel(c)[k + 1] = Do("release", c)
    BY <1>7, Programs
  <2> QED
    BY <1>7, <2>1 DEF Do
<1> HIDE DdmaAssumption DEF CallsOK, Does, Written, Registers, GlobalOK, MaskOK,
      BindOK, StatusOK, SetUpOK, RevokeState, RestState
<1> QED
  BY <1>1, <1>2, <1>3, <1>4, <1>5, <1>6, <1>7

\* Each instruction of SetupChannel leads from its state to the next,
\* the last one to the state between operations.
LEMMA SetupStep ==
  ASSUME TypeOK, CallsOK, NEW c \in Chans, NEW k \in 0 .. 9,
         SetupState(c, k), Does(c, SetupChannel(c)[k + 1])
  PROVE  CallsOK' /\ IF k = 9 THEN RestState' ELSE SetupState(c, k + 1)'
<1> USE DdmaAssumption DEF CallsOK, Does, Written, Registers, GlobalOK, MaskOK,
      BindOK, StatusOK, SetUpOK, SetupState, RestState
<1>1. CASE k = 0
  <2>1. SetupChannel(c)[k + 1] = And("CTL", "G")
    BY <1>1, Programs
  <2> QED
    BY <1>1, <2>1 DEF And
<1>2. CASE k = 1
  <2>1. SetupChannel(c)[k + 1] = And("MASK", "G")
    BY <1>2, Programs
  <2>2. "G" \notin en
    BY DEF TypeOK
  <2> QED
    BY <1>2, <2>1, <2>2 DEF And
<1>3. CASE k = 2
  <2>1. SetupChannel(c)[k + 1] = Disable(c, 4)
    BY <1>3, Programs
  <2> QED
    BY <1>3, <2>1 DEF Disable
<1>4. CASE k = 3
  <2>1. SetupChannel(c)[k + 1] = And("MASK", c)
    BY <1>4, Programs
  <2> QED
    BY <1>4, <2>1 DEF And
<1>5. CASE k = 4
  <2>1. SetupChannel(c)[k + 1] = Do("clear", c)
    BY <1>5, Programs
  <2> QED
    BY <1>5, <2>1 DEF Do
<1>6. CASE k = 5
  <2>1. SetupChannel(c)[k + 1] = And("BIND", c)
    BY <1>6, Programs
  <2> QED
    BY <1>6, <2>1 DEF And
<1>7. CASE k = 6
  <2>1. SetupChannel(c)[k + 1] = And("bind_status", c)
    BY <1>7, Programs
  <2> QED
    BY <1>7, <2>1 DEF And
<1>8. CASE k = 7
  <2>1. SetupChannel(c)[k + 1] = Or("BIND", c)
    BY <1>8, Programs
  <2> QED
    BY <1>8, <2>1 DEF Or
<1>9. CASE k = 8
  <2>1. SetupChannel(c)[k + 1] = Or("bind_status", c)
    BY <1>9, Programs
  <2> QED
    BY <1>9, <2>1 DEF Or
<1>10. CASE k = 9
  <2>1. SetupChannel(c)[k + 1] = Do("own", c)
    BY <1>10, Programs
  <2> QED
    BY <1>10, <2>1 DEF Do
<1> HIDE DdmaAssumption DEF CallsOK, Does, Written, Registers, GlobalOK, MaskOK,
      BindOK, StatusOK, SetUpOK, SetupState, RestState
<1> QED
  BY <1>1, <1>2, <1>3, <1>4, <1>5, <1>6, <1>7, <1>8, <1>9, <1>10

\* An operation of n instructions ends after n and not before.
LEMMA EndsAt ==
  ASSUME NEW p \in Seq(Instructions), NEW n \in Nat, Len(p) = n
  PROVE  From(p, n) = <<>> /\ \A j \in 0 .. n - 1 : From(p, j) # <<>>
<1>1. From(p, n) = <<>>
  BY FromEnds
<1>2. ASSUME NEW j \in 0 .. n - 1 PROVE From(p, j) # <<>>
  BY <1>2, FromFacts
<1> QED
  BY <1>1, <1>2

\* Where the operation and the registers stay as they are, so does the place.
LEMMA InsideStays ==
  ASSUME NEW c \in Chans, Inside(c),
         UNCHANGED <<prog, reg, en, done, owned, bdl>>
  PROVE  Inside(c)'
  BY DEF Inside, StopState, SetupState, RevokeState, StartState, BdlState,
     RestState, GlobalOK, MaskOK, BindOK, StatusOK, SetUpOK

\* A step of the one operation keeps it at one of its places, or ends it.
LEMMA PlaceStep ==
  ASSUME TypeOK, CallsOK, NEW c \in Chans, ~Idle(c), Inside(c), Task(c),
         tmp[c] # Unread => tmp[c] = reg[Head(prog[c]).reg]
  PROVE  CallsOK' /\ IF Idle(c)' THEN RestState' ELSE Inside(c)'
<1> DEFINE Unmoved == UNCHANGED <<reg, en, done, owned, bdl, failed>>
           Goal == CallsOK' /\ IF Idle(c)' THEN RestState' ELSE Inside(c)'
<1>1. CASE Unmoved /\ UNCHANGED prog
  <2>1. Inside(c)' /\ ~Idle(c)'
    BY <1>1, InsideStays DEF Idle
  <2> QED
    BY <1>1, <2>1 DEF CallsOK
<1> SUFFICES ASSUME
      \/ Does(c, Head(prog[c])) /\ prog'[c] = From(prog[c], 1)
      \/ /\ Head(prog[c]).op = "disable" /\ c \in en
         /\ prog'[c] = From(prog[c], 1 + Head(prog[c]).skip) /\ Unmoved
    PROVE Goal
  BY <1>1, TaskStep DEF CallsOK
<1>2. ASSUME NEW p \in Seq(Instructions), NEW k \in Nat, k < Len(p),
             prog[c] = From(p, k)
      PROVE  \/ Does(c, p[k + 1]) /\ prog'[c] = From(p, k + 1)
             \/ /\ p[k + 1].op = "disable" /\ c \in en
                /\ prog'[c] = From(p, k + (1 + p[k + 1].skip)) /\ Unmoved
  <2> HIDE DEF Unmoved, Goal
  <2>0. prog[c] = From(p, k) /\ k < Len(p)
    BY <1>2
  <2>1. Head(prog[c]) = p[k + 1] /\ p[k + 1] \in Instructions
    <3>1. Head(From(p, k)) = p[k + 1]
      BY <2>0, FromFacts
    <3>2. k + 1 \in 1 .. Len(p)
      BY <2>0
    <3>3. p[k + 1] \in Instructions
      BY <3>2
    <3> QED
      BY <2>0, <3>1, <3>3
  <2>2. \A j \in Nat : From(prog[c], j) = From(p, k + j)
    BY <1>2, FromFacts
  <2>3. p[k + 1].op = "disable" => p[k + 1].skip \in Nat
    BY <2>1 DEF Instructions, LocalOps
  <2>4. CASE Does(c, Head(prog[c])) /\ prog'[c] = From(prog[c], 1)
    BY <2>1, <2>2, <2>4
  <2>5. CASE /\ Head(prog[c]).op = "disable" /\ c \in en
             /\ prog'[c] = From(prog[c], 1 + Head(prog[c]).skip) /\ Unmoved
    <3>1. 1 + p[k + 1].skip \in Nat
      BY <2>1, <2>3, <2>5
    <3>2. prog'[c] = From(p, k + (1 + p[k + 1].skip))
      BY <2>1, <2>2, <2>5, <3>1
    <3> QED
      BY <2>1, <2>5, <3>2
  <2> QED
    BY <2>4, <2>5
<1>3. ASSUME NEW k \in 0 .. 1, prog[c] = From(FDdmaStop, k),
             StopState(k)
      PROVE  Goal
  <2> DEFINE p == FDdmaStop
  <2>1. /\ p \in Seq(Instructions) /\ Len(p) = 2
        /\ k \in Nat /\ k < Len(p)
    <3>1. p \in Seq(Instructions) /\ Len(p) = 2
      BY ProgramsTyped
    <3> QED
      BY <3>1
  <2>0. /\ From(p, 2) = <<>>
        /\ \A j \in 0 .. 2 - 1 : From(p, j) # <<>>
    BY <2>1, EndsAt
  <2>2. \/ Does(c, p[k + 1]) /\ prog'[c] = From(p, k + 1)
        \/ /\ p[k + 1].op = "disable" /\ c \in en
           /\ prog'[c] = From(p, k + (1 + p[k + 1].skip))
           /\ Unmoved
    BY <1>2, <1>3, <2>1
  <2>3. ASSUME Does(c, p[k + 1]), prog'[c] = From(p, k + 1)
        PROVE  Goal
    <3>1. CallsOK' /\ IF k = 1 THEN RestState' ELSE StopState(k + 1)'
      BY <1>3, <2>3, StopStep
    <3>2. CASE k = 1
      <4>1. k + 1 = 2
        BY <3>2
      <4>2. Idle(c)'
        BY <2>0, <2>3, <4>1 DEF Idle
      <4> QED
        BY <3>1, <3>2, <4>2
    <3>3. CASE k # 1
      <4>1. k + 1 \in 0 .. 1 /\ ~Idle(c)'
        BY <2>0, <2>3, <3>3 DEF Idle
      <4>2. Inside(c)'
        BY <2>3, <3>1, <3>3, <4>1 DEF Inside
      <4> QED
        BY <3>1, <4>1, <4>2
    <3> QED
      BY <3>2, <3>3
  <2>4. p[k + 1].op # "disable"
    BY Programs DEF And, Or, Do
  <2> QED
    BY <2>2, <2>3, <2>4
<1>4. ASSUME NEW k \in 0 .. 9, prog[c] = From(SetupChannel(c), k),
             SetupState(c, k)
      PROVE  Goal
  <2> DEFINE p == SetupChannel(c)
  <2>1. /\ p \in Seq(Instructions) /\ Len(p) = 10
        /\ k \in Nat /\ k < Len(p)
    <3>1. p \in Seq(Instructions) /\ Len(p) = 10
      BY ProgramsTyped
    <3> QED
      BY <3>1
  <2>0. /\ From(p, 10) = <<>>
        /\ \A j \in 0 .. 10 - 1 : From(p, j) # <<>>
    BY <2>1, EndsAt
  <2>2. \/ Does(c, p[k + 1]) /\ prog'[c] = From(p, k + 1)
        \/ /\ p[k + 1].op = "disable" /\ c \in en
           /\ prog'[c] = From(p, k + (1 + p[k + 1].skip))
           /\ Unmoved
    BY <1>2, <1>4, <2>1
  <2>3. ASSUME Does(c, p[k + 1]), prog'[c] = From(p, k + 1)
        PROVE  Goal
    <3>1. CallsOK' /\ IF k = 9 THEN RestState' ELSE SetupState(c, k + 1)'
      BY <1>4, <2>3, SetupStep
    <3>2. CASE k = 9
      <4>1. k + 1 = 10
        BY <3>2
      <4>2. Idle(c)'
        BY <2>0, <2>3, <4>1 DEF Idle
      <4> QED
        BY <3>1, <3>2, <4>2
    <3>3. CASE k # 9
      <4>1. k + 1 \in 0 .. 9 /\ ~Idle(c)'
        BY <2>0, <2>3, <3>3 DEF Idle
      <4>2. Inside(c)'
        BY <2>3, <3>1, <3>3, <4>1 DEF Inside
      <4> QED
        BY <3>1, <4>1, <4>2
    <3> QED
      BY <3>2, <3>3
  <2>4. c \notin en
    BY <1>4 DEF SetupState
  <2> QED
    BY <2>2, <2>3, <2>4
<1>5. ASSUME NEW k \in 0 .. 6, prog[c] = From(RevokeChannel(c), k),
             RevokeState(c, k)
      PROVE  Goal
  <2> DEFINE p == RevokeChannel(c)
  <2>1. /\ p \in Seq(Instructions) /\ Len(p) = 7
        /\ k \in Nat /\ k < Len(p)
    <3>1. p \in Seq(Instructions) /\ Len(p) = 7
      BY ProgramsTyped
    <3> QED
      BY <3>1
  <2>0. /\ From(p, 7) = <<>>
        /\ \A j \in 0 .. 7 - 1 : From(p, j) # <<>>
    BY <2>1, EndsAt
  <2>2. \/ Does(c, p[k + 1]) /\ prog'[c] = From(p, k + 1)
        \/ /\ p[k + 1].op = "disable" /\ c \in en
           /\ prog'[c] = From(p, k + (1 + p[k + 1].skip))
           /\ Unmoved
    BY <1>2, <1>5, <2>1
  <2>3. ASSUME Does(c, p[k + 1]), prog'[c] = From(p, k + 1)
        PROVE  Goal
    <3>1. CallsOK' /\ IF k = 6 THEN RestState' ELSE RevokeState(c, k + 1)'
      BY <1>5, <2>3, RevokeStep
    <3>2. CASE k = 6
      <4>1. k + 1 = 7
        BY <3>2
      <4>2. Idle(c)'
        BY <2>0, <2>3, <4>1 DEF Idle
      <4> QED
        BY <3>1, <3>2, <4>2
    <3>3. CASE k # 6
      <4>1. k + 1 \in 0 .. 6 /\ ~Idle(c)'
        BY <2>0, <2>3, <3>3 DEF Idle
      <4>2. Inside(c)'
        BY <2>3, <3>1, <3>3, <4>1 DEF Inside
      <4> QED
        BY <3>1, <4>1, <4>2
    <3> QED
      BY <3>2, <3>3
  <2>4. ASSUME c \in en, Unmoved,
               prog'[c] = From(p, k + (1 + p[k + 1].skip))
        PROVE  Goal
    <3>1. k = 0
      BY <1>5, <2>4 DEF RevokeState
    <3>2. p[k + 1].skip = 6
      BY <3>1, Programs DEF Disable
    <3>3. Idle(c)'
      BY <2>0, <2>4, <3>1, <3>2 DEF Idle
    <3>4. RestState /\ CallsOK'
      BY <1>5, <2>4, <3>1 DEF RevokeState, RestState, CallsOK
    <3> QED
      BY <2>4, <3>3, <3>4 DEF RestState, GlobalOK, MaskOK, BindOK, StatusOK,
         SetUpOK
  <2> QED
    BY <2>2, <2>3, <2>4
<1>6. ASSUME NEW k \in 0 .. 5, prog[c] = From(StartChannel(c), k),
             StartState(c, k)
      PROVE  Goal
  <2> DEFINE p == StartChannel(c)
  <2>1. /\ p \in Seq(Instructions) /\ Len(p) = 6
        /\ k \in Nat /\ k < Len(p)
    <3>1. p \in Seq(Instructions) /\ Len(p) = 6
      BY ProgramsTyped
    <3> QED
      BY <3>1
  <2>0. /\ From(p, 6) = <<>>
        /\ \A j \in 0 .. 6 - 1 : From(p, j) # <<>>
    BY <2>1, EndsAt
  <2>2. \/ Does(c, p[k + 1]) /\ prog'[c] = From(p, k + 1)
        \/ /\ p[k + 1].op = "disable" /\ c \in en
           /\ prog'[c] = From(p, k + (1 + p[k + 1].skip))
           /\ Unmoved
    BY <1>2, <1>6, <2>1
  <2>3. ASSUME Does(c, p[k + 1]), prog'[c] = From(p, k + 1)
        PROVE  Goal
    <3>1. CallsOK' /\ IF k = 5 THEN RestState' ELSE StartState(c, k + 1)'
      BY <1>6, <2>3, StartStep
    <3>2. CASE k = 5
      <4>1. k + 1 = 6
        BY <3>2
      <4>2. Idle(c)'
        BY <2>0, <2>3, <4>1 DEF Idle
      <4> QED
        BY <3>1, <3>2, <4>2
    <3>3. CASE k # 5
      <4>1. k + 1 \in 0 .. 5 /\ ~Idle(c)'
        BY <2>0, <2>3, <3>3 DEF Idle
      <4>2. Inside(c)'
        BY <2>3, <3>1, <3>3, <4>1 DEF Inside
      <4> QED
        BY <3>1, <4>1, <4>2
    <3> QED
      BY <3>2, <3>3
  <2>4. p[k + 1].op # "disable"
    BY Programs DEF And, Or, Do
  <2> QED
    BY <2>2, <2>3, <2>4
<1>7. ASSUME NEW k \in 0 .. 1, prog[c] = From(SetupBDLChannel(c), k),
             BdlState(c, k)
      PROVE  Goal
  <2> DEFINE p == SetupBDLChannel(c)
  <2>1. /\ p \in Seq(Instructions) /\ Len(p) = 2
        /\ k \in Nat /\ k < Len(p)
    <3>1. p \in Seq(Instructions) /\ Len(p) = 2
      BY ProgramsTyped
    <3> QED
      BY <3>1
  <2>0. /\ From(p, 2) = <<>>
        /\ \A j \in 0 .. 2 - 1 : From(p, j) # <<>>
    BY <2>1, EndsAt
  <2>2. \/ Does(c, p[k + 1]) /\ prog'[c] = From(p, k + 1)
        \/ /\ p[k + 1].op = "disable" /\ c \in en
           /\ prog'[c] = From(p, k + (1 + p[k + 1].skip))
           /\ Unmoved
    BY <1>2, <1>7, <2>1
  <2>3. ASSUME Does(c, p[k + 1]), prog'[c] = From(p, k + 1)
        PROVE  Goal
    <3>1. CallsOK' /\ IF k = 1 THEN RestState' ELSE BdlState(c, k + 1)'
      BY <1>7, <2>3, BdlStep
    <3>2. CASE k = 1
      <4>1. k + 1 = 2
        BY <3>2
      <4>2. Idle(c)'
        BY <2>0, <2>3, <4>1 DEF Idle
      <4> QED
        BY <3>1, <3>2, <4>2
    <3>3. CASE k # 1
      <4>1. k + 1 \in 0 .. 1 /\ ~Idle(c)'
        BY <2>0, <2>3, <3>3 DEF Idle
      <4>2. Inside(c)'
        BY <2>3, <3>1, <3>3, <4>1 DEF Inside
      <4> QED
        BY <3>1, <4>1, <4>2
    <3> QED
      BY <3>2, <3>3
  <2>4. p[k + 1].op # "disable"
    BY Programs DEF And, Or, Do
  <2> QED
    BY <2>2, <2>3, <2>4
<1>8. ASSUME prog[c] = StopChannel(c), RestState PROVE Goal
  <2> DEFINE p == StopChannel(c)
  <2>1. /\ p \in Seq(Instructions) /\ Len(p) = 1
        /\ p[1] = Disable(c, 0)
    BY ProgramsTyped, Programs
  <2>2. prog[c] = From(p, 0) /\ From(p, 1) = <<>>
    <3>1. From(p, 1) = <<>>
      BY <2>1, EndsAt
    <3> QED
      BY <1>8, <2>1, <3>1, FromEnds
  <2>3. \/ Does(c, p[0 + 1]) /\ prog'[c] = From(p, 0 + 1)
        \/ /\ p[0 + 1].op = "disable" /\ c \in en
           /\ prog'[c] = From(p, 0 + (1 + p[0 + 1].skip))
           /\ Unmoved
    BY <1>2, <2>1, <2>2
  <2>4. Disable(c, 0).skip = 0
    BY DEF Disable
  <2>5. Idle(c)'
    BY <2>1, <2>2, <2>3, <2>4 DEF Idle
  <2>6. CallsOK' /\ RestState'
    BY <1>8, <2>1, <2>3 DEF Does, Written, Registers, Disable, CallsOK,
       RestState, GlobalOK, MaskOK, BindOK, StatusOK, SetUpOK
  <2> QED
    BY <2>5, <2>6
<1> QED
  BY <1>3, <1>4, <1>5, <1>6, <1>7, <1>8 DEF Inside

\* An operation starts from the state between operations.
LEMMA SoloCall ==
  ASSUME TypeOK, LockInv, SoloInv, NEW c \in Chans, Call(c) PROVE SoloInv'
<1> SUFFICES ASSUME ~overlap' PROVE SoloInv'
  BY DEF SoloInv
<1> USE DdmaAssumption
<1>1. PICK p \in Seq(Instructions) : p # <<>> /\ Starts(c, p)
  BY CallStarts
<1>2. /\ Idle(c) /\ prog' = [prog EXCEPT ![c] = p]
      /\ UNCHANGED <<reg, en, work, done, tmp, owned, bdl, failed>>
  BY <1>1 DEF Starts, Begin
<1>3. ~overlap /\ AllIdle
  <2>1. CASE Locked(c)
    <3>1. locker = "free" /\ ~overlap /\ unlocked = {}
      BY <2>1 DEF Locked, TakeSema, TypeOK
    <3> QED
      BY <3>1 DEF LockInv, AllIdle
  <2>2. CASE Unlocked(c)
    BY <2>2 DEF Unlocked, TypeOK
  <2> QED
    BY <1>1, <2>1, <2>2 DEF Starts
<1>4. /\ RestState /\ ~failed'
      /\ en' \subseteq owned' /\ done' \subseteq owned'
      /\ UNCHANGED <<reg, en, done, owned, bdl>>
  BY <1>2, <1>3 DEF SoloInv
<1>5. \A d \in Chans : tmp'[d] = Unread
  BY <1>2, <1>3 DEF TypeOK, AllIdle
<1>6. prog'[c] = p /\ \A d \in Chans \ {c} : Idle(d)'
  BY <1>2, <1>3 DEF TypeOK, AllIdle, Idle
<1>7. RestState'
  BY <1>4 DEF RestState, GlobalOK, MaskOK, BindOK, StatusOK, SetUpOK
<1>8. Inside(c)'
  <2>1. \A q \in Seq(Instructions) : Begin(c, q) => prog'[c] = q
    BY DEF Begin, TypeOK
  <2>2. \A q \in Seq(Instructions) : From(q, 0) = q
    BY FromEnds
  <2>3. /\ FDdmaStop \in Seq(Instructions)
        /\ StopChannel(c) \in Seq(Instructions)
        /\ SetupBDLChannel(c) \in Seq(Instructions)
        /\ StartChannel(c) \in Seq(Instructions)
        /\ RevokeChannel(c) \in Seq(Instructions)
        /\ SetupChannel(c) \in Seq(Instructions)
    BY ProgramsTyped
  <2>4. CASE FFreeRTOSDdmaSetupChannel(c)
    <3>1. prog'[c] = From(SetupChannel(c), 0)
      BY <2>1, <2>2, <2>3, <2>4 DEF FFreeRTOSDdmaSetupChannel
    <3>2. c \notin reg["bind_status"] /\ c \notin en
      BY <2>4 DEF FFreeRTOSDdmaSetupChannel
    <3>3. c \notin owned
      BY <1>4, <3>2 DEF RestState, SetUpOK
    <3>4. SetupState(c, 0)'
      BY <1>4, <1>7, <3>2, <3>3 DEF RestState, SetupState
    <3> QED
      BY <3>1, <3>4 DEF Inside
  <2>5. CASE FFreeRTOSDdmaRevokeChannel(c)
    <3>1. prog'[c] = From(RevokeChannel(c), 0)
      BY <2>1, <2>2, <2>3, <2>5 DEF FFreeRTOSDdmaRevokeChannel
    <3>2. RevokeState(c, 0)'
      BY <1>7 DEF RestState, RevokeState
    <3> QED
      BY <3>1, <3>2 DEF Inside
  <2>6. CASE FFreeRTOSDdmaStartChannel(c) \/ FFreeRTOSDdmaBDLStartChannel(c)
    <3>1. prog'[c] = From(StartChannel(c), 0) /\ c \in owned
      BY <2>1, <2>2, <2>3, <2>6
         DEF FFreeRTOSDdmaStartChannel, FFreeRTOSDdmaBDLStartChannel
    <3>2. StartState(c, 0)'
      BY <1>4, <1>7, <3>1 DEF RestState, StartState
    <3> QED
      BY <3>1, <3>2 DEF Inside
  <2>7. CASE FFreeRTOSDdmaStopChannel(c)
    BY <1>7, <2>1, <2>3, <2>7 DEF FFreeRTOSDdmaStopChannel, Inside
  <2>8. CASE FFreeRTOSDdmaStop(c)
    <3>1. prog'[c] = From(FDdmaStop, 0)
      BY <2>1, <2>2, <2>3, <2>8 DEF FFreeRTOSDdmaStop
    <3>2. StopState(0)'
      BY <1>7 DEF RestState, StopState
    <3> QED
      BY <3>1, <3>2 DEF Inside
  <2>9. CASE FFreeRTOSDdmaSetupBDLChannel(c)
    <3>1. prog'[c] = From(SetupBDLChannel(c), 0)
      BY <2>1, <2>2, <2>3, <2>9 DEF FFreeRTOSDdmaSetupBDLChannel
    <3>2. BdlState(c, 0)'
      BY <1>7 DEF RestState, BdlState
    <3> QED
      BY <3>1, <3>2 DEF Inside
  <2> QED
    BY <2>4, <2>5, <2>6, <2>7, <2>8, <2>9 DEF Call
<1>9. \A d \in Chans : ~Idle(d)' => Inside(d)'
  BY <1>6, <1>8
<1> QED
  BY <1>4, <1>5, <1>7, <1>9 DEF SoloInv

\* What the one operation has read stays in the register until it is written.
LEMMA SoloTask ==
  ASSUME TypeOK, TypeOK', LockInv, SoloInv, NEW c \in Chans, Task(c)
  PROVE  SoloInv'
<1>1. /\ ~Idle(c) /\ overlap' = overlap
      /\ ReadReg(c) \/ \E k \in Nat : Advance(c, k)
  BY TaskAdvances
<1> SUFFICES ASSUME ~overlap PROVE SoloInv'
  BY <1>1 DEF SoloInv
<1>2. \A d \in Chans \ {c} : Idle(d) /\ tmp[d] = Unread
  BY <1>1 DEF LockInv, TypeOK
<1>3. /\ CallsOK /\ Inside(c)
      /\ tmp[c] # Unread => tmp[c] = reg[Head(prog[c]).reg]
  BY <1>1 DEF SoloInv, CallsOK
<1>4. CallsOK' /\ IF Idle(c)' THEN RestState' ELSE Inside(c)'
  BY <1>1, <1>3, PlaceStep
<1>5. \A d \in Chans \ {c} : prog'[d] = prog[d]
  <2>1. CASE ReadReg(c)
    BY <2>1 DEF ReadReg
  <2>2. CASE \E k \in Nat : Advance(c, k)
    BY <2>2, Advanced
  <2> QED
    BY <1>1, <2>1, <2>2
<1>6. \A d \in Chans \ {c} : Idle(d)'
  BY <1>2, <1>5 DEF Idle
<1>7. ASSUME NEW d \in Chans, tmp'[d] # Unread
      PROVE  tmp'[d] = reg'[Head(prog'[d]).reg]
  <2>1. d = c
    BY <1>6, <1>7 DEF TypeOK
  <2>2. CASE ReadReg(c)
    BY <2>1, <2>2 DEF ReadReg, TypeOK
  <2>3. CASE WriteReg(c)
    BY <1>7, <2>1, <2>3 DEF WriteReg, TypeOK
  <2>4. CASE \/ DisableChan(c) \/ ClearChanIrq(c) \/ EnableChan(c)
             \/ AssertBound(c) \/ Own(c)
    <3>1. Head(prog[c]).op \notin {"or", "and"} /\ tmp'[c] = tmp[c]
      BY <2>4 DEF DisableChan, ClearChanIrq, EnableChan, AssertBound, Own, At
    <3> QED
      BY <1>7, <2>1, <3>1, NothingRead
  <2> QED
    BY <2>2, <2>3, <2>4 DEF Task
<1>8. AllIdle' => RestState'
  BY <1>4 DEF AllIdle
<1>9. \A d \in Chans : ~Idle(d)' => Inside(d)'
  BY <1>4, <1>6
<1> QED
  BY <1>4, <1>7, <1>8, <1>9 DEF SoloInv, CallsOK

\* The interrupt and the controller change only what is done, and no channel
\* becomes done that is not enabled.
LEMMA SoloHardware ==
  ASSUME SoloInv, \A c \in Chans : c \in done' => c \in done \/ c \in en,
         done' \subseteq Chans,
         UNCHANGED <<prog, tmp, reg, en, owned, bdl, overlap, failed>>
  PROVE  SoloInv'
<1> SUFFICES ASSUME ~overlap PROVE SoloInv'
  BY DEF SoloInv
<1>1. ASSUME NEW c \in Chans, Inside(c) PROVE Inside(c)'
  <2>1. ASSUME NEW k \in 0 .. 6, RevokeState(c, k) PROVE RevokeState(c, k)'
    BY <2>1 DEF RevokeState, GlobalOK, MaskOK, BindOK, StatusOK, SetUpOK
  <2> QED
    BY <1>1, <2>1 DEF Inside, StopState, SetupState, StartState, BdlState,
       RestState, GlobalOK, MaskOK, BindOK, StatusOK, SetUpOK
<1>2. RestState => RestState'
  BY DEF RestState, GlobalOK, MaskOK, BindOK, StatusOK, SetUpOK
<1>3. ~failed' /\ en' \subseteq owned' /\ done' \subseteq owned'
  BY DEF SoloInv
<1> QED
  BY <1>1, <1>2, <1>3 DEF SoloInv, AllIdle, Idle

\* Every step leaves the one operation at one of its places.
LEMMA SoloStep == TypeOK /\ LockInv /\ SoloInv /\ [Next]_vars => SoloInv'
<1> SUFFICES ASSUME TypeOK, LockInv, SoloInv, [Next]_vars PROVE SoloInv'
  OBVIOUS
<1>1. CASE FFreeRTOSDdmaInit \/ FFreeRTOSDdmaDeinit
  <2>1. AllIdle /\ FDdmaReset
    BY <1>1 DEF FFreeRTOSDdmaInit, FFreeRTOSDdmaDeinit, LockInv
  <2>2. ~overlap => ~failed
    BY DEF SoloInv
  <2>3. RestState'
    BY <2>1 DEF FDdmaReset, RestState, GlobalOK, MaskOK, BindOK, StatusOK,
       SetUpOK, Registers
  <2>4. \A c \in Chans : Idle(c)' /\ tmp'[c] = Unread
    BY <2>1 DEF FDdmaReset, AllIdle, Idle, TypeOK
  <2>5. en' = {} /\ done' = {} /\ UNCHANGED <<failed, overlap>>
    BY <2>1 DEF FDdmaReset
  <2> QED
    BY <2>2, <2>3, <2>4, <2>5 DEF SoloInv
<1>2. ASSUME NEW c \in Chans, Call(c) PROVE SoloInv'
  BY <1>2, SoloCall
<1>3. ASSUME NEW c \in Chans, Task(c) PROVE SoloInv'
  BY <1>3, SoloTask, TypeStep
<1>4. ASSUME NEW c \in Chans, Transfer(c) PROVE SoloInv'
  BY <1>4, SoloHardware DEF Transfer, histVars, TypeOK
<1>5. CASE FDdmaIrqHandler
  BY <1>5, SoloHardware DEF FDdmaIrqHandler
<1>6. CASE UNCHANGED vars
  BY <1>6, SoloHardware DEF vars, histVars, TypeOK
<1> QED
  BY <1>1, <1>2, <1>3, <1>4, <1>5, <1>6 DEF Next

-----------------------------------------------------------------------------
IInv == TypeOK /\ LockInv /\ SoloInv

\* The invariants hold in every reachable state.
LEMMA Inductive == Spec => []IInv
<1>1. Init => IInv
  <2> SUFFICES ASSUME Init PROVE IInv
    OBVIOUS
  <2>1. <<>> \in Seq(Instructions)
    OBVIOUS
  <2>2. TypeOK
    <3>1. /\ prog \in [Chans -> Seq(Instructions)]
          /\ reg \in [Registers -> SUBSET Bits]
          /\ \A r \in Registers : reg[r] \subseteq Width(r)
      BY <2>1 DEF Init
    <3>2. /\ tmp \in [Chans -> (SUBSET Bits) \union {Unread}]
          /\ \A c \in Chans : tmp[c] = Unread
      BY DEF Init
    <3>3. ready \in BOOLEAN /\ overlap \in BOOLEAN /\ failed \in BOOLEAN
      BY Zenon DEF Init
    <3>4. /\ ops \in 0 .. MaxOps /\ locker \in Chans \union {"free", "null"}
          /\ en = {} /\ work = {} /\ done = {} /\ owned = {} /\ bdl = {}
          /\ running = {} /\ unlocked = {}
      BY DdmaAssumption DEF Init
    <3> QED
      BY <3>1, <3>2, <3>3, <3>4 DEF TypeOK
  <2>3. LockInv
    BY DdmaAssumption DEF Init, LockInv, AllIdle, Idle
  <2>4. SoloInv
    BY DEF Init, SoloInv, Idle, RestState, GlobalOK, MaskOK, BindOK, StatusOK,
       SetUpOK, Registers
  <2> QED
    BY <2>2, <2>3, <2>4 DEF IInv
<1>2. IInv /\ [Next]_vars => IInv'
  BY TypeStep, LockStep, SoloStep DEF IInv
<1> QED
  BY <1>1, <1>2, PTL DEF Spec

\* The types of all variables: in particular the shared registers hold only
\* bits they have, whatever the tasks interleave.
THEOREM DdmaTypeCorrect == Spec => []TypeOK
<1>1. IInv => TypeOK
  BY DEF IInv
<1> QED
  BY Inductive, <1>1, PTL

\* As long as no operation without the mutex overlaps another one, the
\* assertion of FDdmaChanActive holds, and between operations the control,
\* mask and bind registers and bind_status fit together.
THEOREM DdmaRegistersAgree == Spec => []RegistersAgree
<1>1. IInv => RegistersAgree
  BY DEF IInv, SoloInv, RestState, GlobalOK, MaskOK, BindOK, StatusOK,
     RegistersAgree
<1> QED
  BY Inductive, <1>1, PTL

\* With the same exception FDdmaIrqHandler calls no handler of a channel that
\* has been revoked.
THEOREM DdmaNoCallAfterRevoke == Spec => NoCallAfterRevoke
<1>1. IInv => [FDdmaIrqHandler =>
                 \A c \in done : c \in owned \/ ~Idle(c) \/ overlap]_vars
  BY DEF IInv, SoloInv
<1> QED
  BY Inductive, <1>1, PTL DEF Spec, NoCallAfterRevoke
=============================================================================
