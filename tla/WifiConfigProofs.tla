--------------------------- MODULE WifiConfigProofs ---------------------------
(***************************************************************************)
(* Proofs about WifiConfig, for any set of connections, SSIDs and inodes.  *)
(***************************************************************************)
EXTENDS WifiConfig, InductionLemmas

\* What parse, Add, Remove and write make of a file: facts about the operators of
\* WifiDoc.
LEMMA KeptDefined ==
    ASSUME NEW S, NEW nets \in Seq(S), NEW s
    PROVE  Kept(nets, s) =
             [i \in 0 .. Len(nets) |->
                IF i = 0 THEN <<>>
                ELSE IF nets[i] = s THEN Kept(nets, s)[i - 1]
                ELSE Append(Kept(nets, s)[i - 1], nets[i])]
<1> DEFINE n == Len(nets)
           K == Seq(S)
           step == [i \in 1 .. n |-> [k \in K |->
                       IF nets[i] = s THEN k ELSE Append(k, nets[i])]]
           IsKept(g) == g = [i \in 0 .. Len(nets) |->
                               IF i = 0 THEN <<>>
                               ELSE IF nets[i] = s THEN g[i - 1]
                               ELSE Append(g[i - 1], nets[i])]
<1>1. n \in Nat /\ <<>> \in K /\ \A i \in 1 .. n : nets[i] \in S
  BY LenProperties, ElementOfSeq
<1>2. Stays(K, n, step)
  BY <1>1 DEF Stays
<1> HIDE DEF n, K, step
<1>3. PICK g : Solves(g, K, n, <<>>, step)
  BY <1>1, <1>2, Recursion
<1>4. g \in [0 .. n -> K] /\ g[0] = <<>> /\ \A i \in 1 .. n : g[i] = step[i][g[i - 1]]
  BY <1>3 DEF Solves
<1>5. \A i \in 1 .. n : g[i] = IF nets[i] = s THEN g[i - 1] ELSE Append(g[i - 1], nets[i])
  <2> SUFFICES ASSUME NEW i \in 1 .. n
               PROVE  g[i] = IF nets[i] = s THEN g[i - 1] ELSE Append(g[i - 1], nets[i])
    OBVIOUS
  <2>1. g[i - 1] \in K
    BY <1>1, <1>4
  <2> QED BY <2>1, <1>4 DEF step
<1>6. \A i \in 0 .. n : g[i] = IF i = 0 THEN <<>>
                               ELSE IF nets[i] = s THEN g[i - 1]
                               ELSE Append(g[i - 1], nets[i])
  <2> SUFFICES ASSUME NEW i \in 0 .. n
               PROVE  g[i] = IF i = 0 THEN <<>>
                             ELSE IF nets[i] = s THEN g[i - 1]
                             ELSE Append(g[i - 1], nets[i])
    OBVIOUS
  <2>1. i # 0 => i \in 1 .. n
    BY <1>1
  <2> QED BY <2>1, <1>4, <1>5
<1>7. IsKept(g)
  BY <1>4, <1>6 DEF n
<1> QED BY <1>7 DEF Kept

-----------------------------------------------------------------------------
\* No element twice.
Distinct(seq) == \A i, j \in DOMAIN seq : seq[i] = seq[j] => i = j

\* What Remove's loop has kept of the first i networks.
LoopInv(S, nets, s, kept, i) ==
    /\ kept \in Seq(S \ {s})
    /\ Range(kept) = {nets[j] : j \in 1 .. i} \ {s}
    /\ Distinct(nets) => Distinct(kept)

LEMMA AppendFacts ==
    ASSUME NEW S, NEW seq \in Seq(S), NEW e \in S
    PROVE  /\ Append(seq, e) \in Seq(S)
           /\ Range(Append(seq, e)) = Range(seq) \cup {e}
           /\ Distinct(seq) /\ e \notin Range(seq) => Distinct(Append(seq, e))
<1>1. /\ Append(seq, e) \in Seq(S) /\ Len(Append(seq, e)) = Len(seq) + 1
      /\ Append(seq, e)[Len(seq) + 1] = e
      /\ \A i \in 1 .. Len(seq) : Append(seq, e)[i] = seq[i]
      /\ Len(seq) \in Nat /\ DOMAIN seq = 1 .. Len(seq)
      /\ DOMAIN Append(seq, e) = 1 .. Len(seq) + 1
  BY AppendProperties, LenProperties
<1>2. Range(Append(seq, e)) = Range(seq) \cup {e}
  BY <1>1 DEF Range
<1>3. ASSUME Distinct(seq), e \notin Range(seq) PROVE Distinct(Append(seq, e))
  BY <1>1, <1>3 DEF Distinct, Range
<1> QED BY <1>1, <1>2, <1>3

LEMMA KeptFacts ==
    ASSUME NEW S, NEW nets \in Seq(S), NEW s
    PROVE  \A i \in 0 .. Len(nets) : LoopInv(S, nets, s, Kept(nets, s)[i], i)
<1> DEFINE K == Kept(nets, s)
           Bad == {n \in 0 .. Len(nets) : ~ LoopInv(S, nets, s, K[n], n)}
<1>0. Len(nets) \in Nat /\ DOMAIN nets = 1 .. Len(nets)
  BY LenProperties
<1>1. \A i \in 0 .. Len(nets) : K[i] = IF i = 0 THEN <<>>
                                       ELSE IF nets[i] = s THEN K[i - 1]
                                       ELSE Append(K[i - 1], nets[i])
  <2>1. K = [i \in 0 .. Len(nets) |-> IF i = 0 THEN <<>>
                                       ELSE IF nets[i] = s THEN K[i - 1]
                                       ELSE Append(K[i - 1], nets[i])]
    BY KeptDefined
  <2> HIDE DEF K
  <2> QED BY <2>1
<1> HIDE DEF K
<1>2. SUFFICES ASSUME Bad # {} PROVE FALSE
  BY DEF K
<1>3. Bad \in SUBSET Nat
  BY <1>0
<1>4. PICK n \in Bad : \A m \in Bad : n <= m
  <2> HIDE DEF Bad
  <2> QED BY <1>2, <1>3, LeastNat
<1>5. n \in 0 .. Len(nets) /\ n \in Nat
  BY <1>3, <1>4
<1>6. CASE n = 0
  <2>1. K[0] = <<>>
    BY <1>1, <1>0
  <2>2. LoopInv(S, nets, s, K[0], 0)
    BY <2>1 DEF LoopInv, Range, Distinct
  <2> QED BY <2>2, <1>4, <1>6
<1>7. CASE n # 0
  <2>1. n \in 1 .. Len(nets) /\ n - 1 \in 0 .. Len(nets) /\ ~(n <= n - 1)
    BY <1>5, <1>7, <1>0
  <2>2. LoopInv(S, nets, s, K[n - 1], n - 1)
    BY <2>1, <1>4
  <2>3. nets[n] \in S /\ {nets[j] : j \in 1 .. n} = {nets[j] : j \in 1 .. n - 1} \cup {nets[n]}
    BY <2>1, <1>0, ElementOfSeq
  <2>4. CASE nets[n] = s
    <3>1. K[n] = K[n - 1]
      BY <2>1, <2>4, <1>1
    <3> QED BY <3>1, <2>2, <2>3, <2>4, <1>4 DEF LoopInv
  <2>5. CASE nets[n] # s
    <3>1. K[n] = Append(K[n - 1], nets[n])
      BY <1>5, <1>7, <2>5, <1>1
    <3>2. K[n - 1] \in Seq(S \ {s}) /\ nets[n] \in S \ {s}
      BY <2>2, <2>3, <2>5 DEF LoopInv
    <3>3. K[n] \in Seq(S \ {s}) /\ Range(K[n]) = Range(K[n - 1]) \cup {nets[n]}
      BY <3>1, <3>2, AppendFacts
    <3>4. ASSUME Distinct(nets) PROVE Distinct(K[n])
      <4>1. nets[n] \notin {nets[j] : j \in 1 .. n - 1}
        BY <3>4, <2>1, <1>0 DEF Distinct
      <4>2. Distinct(K[n - 1]) /\ nets[n] \notin Range(K[n - 1])
        BY <4>1, <3>4, <2>2 DEF LoopInv
      <4> QED BY <4>2, <3>1, <3>2, AppendFacts
    <3> QED BY <3>3, <3>4, <2>2, <2>3, <2>5, <1>4 DEF LoopInv
  <2> QED BY <2>4, <2>5
<1> QED BY <1>6, <1>7

\* Remove's loop drops the SSID, every time it occurs, and nothing else.
LEMMA WithoutFacts ==
    ASSUME NEW S, NEW nets \in Seq(S), NEW s
    PROVE  /\ Without(nets, s) \in Seq(S) /\ Without(nets, s) \in Seq(S \ {s})
           /\ Range(Without(nets, s)) = Range(nets) \ {s}
           /\ Distinct(nets) => Distinct(Without(nets, s))
<1>1. Len(nets) \in 0 .. Len(nets) /\ DOMAIN nets = 1 .. Len(nets)
  BY LenProperties
<1>2. LoopInv(S, nets, s, Without(nets, s), Len(nets))
  BY <1>1, KeptFacts DEF Without
<1>3. Seq(S \ {s}) \subseteq Seq(S)
  BY SeqMonotonic
<1>4. Range(nets) = {nets[j] : j \in 1 .. Len(nets)}
  BY <1>1 DEF Range
<1> QED BY <1>2, <1>3, <1>4 DEF LoopInv

-----------------------------------------------------------------------------
\* A header, if there is one, is the first cell.
IsFile(f) == f \in Seq(Cell) /\ \A i \in DOMAIN f : i # 1 => f[i] \in Ssid

LEMMA NetsFacts ==
    ASSUME NEW f, IsFile(f)
    PROVE  Nets(f) \in Seq(Ssid) /\ Range(Nets(f)) = Range(f) \ {Hdr}
<1>1. f \in Seq(Cell) /\ Len(f) \in Nat /\ DOMAIN f = 1 .. Len(f)
  BY LenProperties DEF IsFile
<1>2. CASE HasHeader(f)
  <2>1. f # <<>> /\ f[1] = Hdr
    BY <1>2 DEF HasHeader
  <2>2. /\ Len(Tail(f)) = Len(f) - 1 /\ Tail(f) \in Seq(Cell)
        /\ \A i \in 1 .. Len(f) - 1 : Tail(f)[i] = f[i + 1]
    BY <2>1, <1>1, HeadTailProperties
  <2>3. DOMAIN Tail(f) = 1 .. Len(f) - 1 /\ Len(f) >= 1
    BY <2>1, <2>2, <1>1, LenProperties, EmptySeq
  <2>4. \A i \in 1 .. Len(f) - 1 : Tail(f)[i] \in Ssid
    BY <2>2, <1>1 DEF IsFile
  <2>5. Tail(f) \in Seq(Ssid)
    <3>1. Len(Tail(f)) \in Nat /\ Tail(f) \in [1 .. Len(Tail(f)) -> Cell]
      BY <2>2, LenProperties
    <3>2. Tail(f) \in [1 .. Len(Tail(f)) -> Ssid]
      BY <3>1, <2>2, <2>4
    <3> QED BY <3>1, <3>2, SeqDef
  <2>6. Range(Tail(f)) = Range(f) \ {Hdr}
    <3>1. ASSUME NEW x \in Range(Tail(f)) PROVE x \in Range(f) \ {Hdr}
      BY <3>1, <2>2, <2>3, <2>4, <1>1, DocAssumption DEF Range
    <3>2. ASSUME NEW x \in Range(f) \ {Hdr} PROVE x \in Range(Tail(f))
      <4>1. PICK i \in 1 .. Len(f) : f[i] = x
        BY <3>2, <1>1 DEF Range
      <4>2. i - 1 \in 1 .. Len(f) - 1 /\ Tail(f)[i - 1] = x
        BY <4>1, <3>2, <2>1, <2>2, <1>1
      <4> QED BY <4>2, <2>3 DEF Range
    <3> QED BY <3>1, <3>2
  <2> QED BY <1>2, <2>5, <2>6 DEF Nets
<1>3. CASE ~HasHeader(f)
  <2>1. \A i \in 1 .. Len(f) : f[i] \in Ssid
    <3> SUFFICES ASSUME NEW i \in 1 .. Len(f) PROVE f[i] \in Ssid
      OBVIOUS
    <3>1. f # <<>> BY <1>1
    <3>2. f[1] # Hdr /\ f[i] \in Cell
      BY <3>1, <1>3, <1>1, ElementOfSeq DEF HasHeader
    <3> QED BY <3>2, <1>1 DEF IsFile, Cell
  <2>2. f \in Seq(Ssid) /\ Hdr \notin Range(f)
    BY <2>1, <1>1, DocAssumption DEF Range
  <2> QED BY <1>3, <2>2 DEF Nets
<1> QED BY <1>2, <1>3

\* What is rendered is parsed back.
LEMMA RenderFacts ==
    ASSUME NEW header \in BOOLEAN, NEW nets \in Seq(Ssid)
    PROVE  /\ IsFile(Render(header, nets))
           /\ Nets(Render(header, nets)) = nets
           /\ Range(Render(header, nets)) \subseteq Range(nets) \cup {Hdr}
<1>1. Len(nets) \in Nat /\ DOMAIN nets = 1 .. Len(nets)
      /\ nets \in Seq(Cell) /\ \A i \in 1 .. Len(nets) : nets[i] \in Ssid
  BY LenProperties, ElementOfSeq, SeqMonotonic DEF Cell
<1>2. CASE header
  <2> DEFINE r == <<Hdr>> \o nets
  <2>1. /\ r \in Seq(Cell) /\ Len(r) = Len(nets) + 1 /\ r[1] = Hdr
        /\ \A i \in 1 .. Len(nets) : r[i + 1] = nets[i]
        /\ r # <<>> /\ DOMAIN r = 1 .. Len(nets) + 1
    BY <1>1 DEF Cell
  <2>2. Tail(r) = nets
    BY <1>1
  <2> HIDE DEF r
  <2>3. \A i \in 1 .. Len(nets) + 1 : i # 1 => r[i] = nets[i - 1] /\ i - 1 \in 1 .. Len(nets)
    <3> TAKE i \in 1 .. Len(nets) + 1
    <3> HAVE i # 1
    <3>1. i - 1 \in 1 .. Len(nets) /\ (i - 1) + 1 = i
      BY <1>1
    <3> QED BY <3>1, <2>1
  <2>4. IsFile(r)
    BY <2>1, <2>3, <1>1 DEF IsFile
  <2>6. Range(r) \subseteq Range(nets) \cup {Hdr}
    <3> SUFFICES ASSUME NEW i \in 1 .. Len(nets) + 1, r[i] # Hdr
                 PROVE  r[i] \in Range(nets)
      BY <2>1 DEF Range
    <3>1. r[i] = nets[i - 1] /\ i - 1 \in 1 .. Len(nets)
      BY <2>1, <2>3
    <3> QED BY <3>1, <1>1 DEF Range
  <2>5. Nets(r) = nets
    BY <2>1, <2>2 DEF Nets, HasHeader
  <2> QED BY <1>2, <2>4, <2>5, <2>6 DEF Render, r
<1>3. CASE ~header
  <2>1. nets # <<>> => nets[1] \in Ssid
    BY <1>1
  <2>2. ~HasHeader(nets)
    BY <2>1, DocAssumption DEF HasHeader
  <2>3. IsFile(nets)
    BY <1>1 DEF IsFile
  <2> QED BY <1>3, <2>2, <2>3 DEF Render, Nets
<1> QED BY <1>2, <1>3

\* What an Add or a Remove that goes ahead writes.
LEMMA EditedFacts ==
    ASSUME NEW f, IsFile(f), NEW q \in Request, q.op # "list", ~Invalid(q)
    PROVE  /\ IsFile(Edited(f, q))
           /\ q.op = "add" => Range(Nets(Edited(f, q))) = Range(Nets(f)) \cup {q.ssid}
           /\ q.op = "remove" => Range(Nets(Edited(f, q))) = Range(Nets(f)) \ {q.ssid}
           /\ Range(Edited(f, q)) \subseteq
                Range(f) \cup {Hdr} \cup (IF q.op = "add" THEN {q.ssid} ELSE {})
           /\ ~Refused(f, q) /\ Distinct(Nets(f)) => Distinct(Nets(Edited(f, q)))
<1>1. Nets(f) \in Seq(Ssid) /\ Range(Nets(f)) = Range(f) \ {Hdr}
  BY NetsFacts
<1>2. HasHeader(f) \in BOOLEAN
  BY DEF HasHeader
<1>3. CASE q.op = "add"
  <2>1. q.ssid \in Ssid
    BY <1>3 DEF Invalid, Request
  <2>2. Edited(f, q) = Render(HasHeader(f), Append(Nets(f), q.ssid))
    BY <1>3 DEF Edited
  <2>3. Append(Nets(f), q.ssid) \in Seq(Ssid)
        /\ Range(Append(Nets(f), q.ssid)) = Range(Nets(f)) \cup {q.ssid}
    BY <2>1, <1>1, AppendFacts
  <2>4. ~Refused(f, q) /\ Distinct(Nets(f)) => Distinct(Append(Nets(f), q.ssid))
    BY <1>3, <2>1, <1>1, AppendFacts DEF Refused
  <2> DEFINE ns == Append(Nets(f), q.ssid)
  <2> HIDE DEF ns
  <2>5. /\ IsFile(Render(HasHeader(f), ns))
        /\ Nets(Render(HasHeader(f), ns)) = ns
        /\ Range(Render(HasHeader(f), ns)) \subseteq Range(ns) \cup {Hdr}
    <3>1. ns \in Seq(Ssid) BY <2>3 DEF ns
    <3> QED BY <3>1, <1>2, RenderFacts
  <2>6. q.op # "remove" BY <1>3
  <2> QED BY <1>1, <1>3, <2>2, <2>3, <2>4, <2>5, <2>6 DEF ns
<1>4. CASE q.op = "remove"
  <2>1. Edited(f, q) = Render(HasHeader(f), Without(Nets(f), q.ssid))
    BY <1>4 DEF Edited
  <2>2. /\ Without(Nets(f), q.ssid) \in Seq(Ssid)
        /\ Range(Without(Nets(f), q.ssid)) = Range(Nets(f)) \ {q.ssid}
        /\ Distinct(Nets(f)) => Distinct(Without(Nets(f), q.ssid))
    BY <1>1, WithoutFacts, ZenonT(60)
  <2>3. /\ IsFile(Edited(f, q))
        /\ Nets(Edited(f, q)) = Without(Nets(f), q.ssid)
        /\ Range(Edited(f, q)) \subseteq Range(Without(Nets(f), q.ssid)) \cup {Hdr}
    BY <1>2, <2>1, <2>2, RenderFacts
  <2> QED BY <1>1, <1>4, <2>2, <2>3
<1> QED BY <1>3, <1>4 DEF Request

\* A file cut short is a file, with no cell that was not there.
LEMMA PrefixFacts ==
    ASSUME NEW f, IsFile(f), NEW n \in 0 .. Len(f)
    PROVE  IsFile(SubSeq(f, 1, n)) /\ Range(SubSeq(f, 1, n)) \subseteq Range(f)
<1>1. f \in Seq(Cell) /\ Len(f) \in Nat /\ DOMAIN f = 1 .. Len(f)
  BY LenProperties DEF IsFile
<1> DEFINE r == SubSeq(f, 1, n)
<1>2. r \in Seq(Cell) /\ Len(r) = n /\ DOMAIN r = 1 .. n
      /\ \A i \in 1 .. n : r[i] = f[i] /\ i \in 1 .. Len(f)
  BY <1>1
<1> HIDE DEF r
<1>3. IsFile(r) /\ Range(r) \subseteq Range(f)
  BY <1>1, <1>2 DEF IsFile, Range
<1> QED BY <1>3 DEF r

LEMMA InitFileFacts ==
    IsFile(InitFile) /\ Nets(InitFile) = InitNets
      /\ Range(InitFile) \subseteq Range(InitNets) \cup {Hdr}
<1>1. InitFile = Render(TRUE, InitNets)
  BY DEF InitFile, Render
<1> QED BY <1>1, RenderFacts, DocAssumption

LEMMA EmptyFile == IsFile(<<>>) /\ Range(<<>>) = {}
  BY DEF IsFile, Range

-----------------------------------------------------------------------------

(***************************************************************************)
(* Part 1: what holds however the requests interleave.                     *)
(***************************************************************************)

\* The two names: never the same file, and the published one always there.
NamesInv ==
    /\ dir \in [Name -> Inode \cup {NoInode}]
    /\ dir["config"] \in Inode
    /\ dir["config"] # dir["tmp"]
    /\ pc \in [Conn -> Pc]
    /\ DOMAIN answer = Conn

LEMMA NamesInit == Init => NamesInv
  BY FsAssumption DEF Init, NamesInv, Name, Pc

LEMMA NamesStep == NamesInv /\ [Next]_vars => NamesInv'
<1> SUFFICES ASSUME NamesInv, [Next]_vars PROVE NamesInv'
  OBVIOUS
<1> USE DEF NamesInv, Goto, Reply, Pc, InFlight
<1>1. ASSUME NEW c \in Conn, NEW q \in Request, Accept(c, q) PROVE NamesInv'
  BY <1>1 DEF Accept
<1>2. ASSUME NEW c \in Conn, Step(c) PROVE NamesInv'
  <2>1. CASE Reject(c) BY <2>1 DEF Reject
  <2>2. CASE ReadOnly(c) BY <2>2 DEF ReadOnly
  <2>3. CASE ReadEdit(c) BY <2>3 DEF ReadEdit
  <2>4. CASE ReadFails(c) BY <2>4 DEF ReadFails
  <2>5. CASE OpenTmp(c)
    <3>1. PICK i \in Inode :
            /\ IF dir["tmp"] = NoInode THEN i \notin InUse ELSE i = dir["tmp"]
            /\ dir' = [dir EXCEPT !["tmp"] = i]
      BY <2>5 DEF OpenTmp
    <3>2. i # dir["config"]
      BY <3>1 DEF InUse, Name
    <3> QED BY <2>5, <3>1, <3>2 DEF OpenTmp, Name
  <2>6. CASE OpenFails(c) BY <2>6 DEF OpenFails
  <2>7. CASE WriteTmp(c) BY <2>7 DEF WriteTmp, Close
  <2>8. CASE WriteFails(c) BY <2>8 DEF WriteFails, Close
  <2>9. CASE Rename(c) BY <2>9, FsAssumption DEF Rename, Name
  <2>10. CASE RenameFails(c) BY <2>10 DEF RenameFails
  <2>11. CASE Unlink(c) BY <2>11, FsAssumption DEF Unlink, Name
  <2>12. CASE Respond(c) BY <2>12 DEF Respond
  <2> QED BY <1>2, <2>1, <2>2, <2>3, <2>4, <2>5, <2>6, <2>7, <2>8, <2>9,
             <2>10, <2>11, <2>12 DEF Step
<1>3. CASE Crash BY <1>3 DEF Crash
<1>4. CASE Idle \/ UNCHANGED vars BY <1>4 DEF Idle, vars
<1> QED BY <1>1, <1>2, <1>3, <1>4 DEF Next

LEMMA NamesAlways == Spec => []NamesInv
  BY NamesInit, NamesStep, PTL DEF Spec

\* For any number of concurrent requests, failing or dying at any step, the
\* configuration's name resolves to a file that the temporary name does not
\* share: config.go:182-189 never removes or reopens what it has published.
THEOREM ConfigStaysAlone == Spec => []ConfigAlone
<1>1. NamesInv => ConfigAlone
  BY FsAssumption DEF NamesInv, ConfigAlone
<1> QED BY <1>1, NamesAlways, PTL

-----------------------------------------------------------------------------
\* A reply is computed once, in the step that reaches "reply".
AnswerInv ==
    \A c \in Conn : pc[c] \notin {"reply", "done", "gone"} => answer[c] = NoAnswer

StrayInv == NamesInv /\ AnswerInv /\ NoStrayTemp

LEMMA StrayInit == Init => StrayInv
  BY NamesInit DEF Init, StrayInv, AnswerInv, NoStrayTemp, Name

LEMMA StrayStep == StrayInv /\ [Next]_vars => StrayInv'
<1> SUFFICES ASSUME StrayInv, [Next]_vars PROVE StrayInv'
  OBVIOUS
<1>0. NamesInv /\ NamesInv'
  BY NamesStep DEF StrayInv
<1>a. AnswerInv /\ NoStrayTemp
  BY DEF StrayInv
<1> SUFFICES AnswerInv' /\ NoStrayTemp'
  BY <1>0 DEF StrayInv
<1>t. DOMAIN pc = Conn /\ DOMAIN answer = Conn /\ DOMAIN dir = Name
  BY <1>0 DEF NamesInv
<1> USE <1>a, <1>t DEF Goto, Reply, AnswerInv, NoStrayTemp, NoAnswer, IOError
<1>1. ASSUME NEW c \in Conn, NEW q \in Request, Accept(c, q)
      PROVE AnswerInv' /\ NoStrayTemp'
  BY <1>1 DEF Accept
<1>2. ASSUME NEW c \in Conn, Step(c) PROVE AnswerInv' /\ NoStrayTemp'
  <2>1. CASE Reject(c) BY <2>1 DEF Reject
  <2>2. CASE ReadOnly(c) BY <2>2 DEF ReadOnly
  <2>3. CASE ReadEdit(c) BY <2>3 DEF ReadEdit
  <2>4. CASE ReadFails(c) BY <2>4 DEF ReadFails
  <2>5. CASE OpenTmp(c) BY <2>5 DEF OpenTmp
  <2>6. CASE OpenFails(c) BY <2>6 DEF OpenFails
  <2>7. CASE WriteTmp(c) BY <2>7 DEF WriteTmp, Close
  <2>8. CASE WriteFails(c) BY <2>8 DEF WriteFails, Close
  <2>9. CASE Rename(c) BY <2>9 DEF Rename, Name
  <2>10. CASE RenameFails(c) BY <2>10 DEF RenameFails
  <2>11. CASE Unlink(c) BY <2>11 DEF Unlink, Name
  <2>12. CASE Respond(c) BY <2>12 DEF Respond
  <2> QED BY <1>2, <2>1, <2>2, <2>3, <2>4, <2>5, <2>6, <2>7, <2>8, <2>9,
             <2>10, <2>11, <2>12 DEF Step
<1>3. CASE Crash
  BY <1>3 DEF Crash, InFlight
<1>4. CASE Idle \/ UNCHANGED vars BY <1>4 DEF Idle, vars
<1> QED BY <1>1, <1>2, <1>3, <1>4 DEF Next

\* For any number of concurrent requests: a temporary with no request writing,
\* publishing or removing it is the trace of a request that died or could not
\* write.  Every other opener takes the name away, its own file's or another's.
THEOREM TempAccountedFor == Spec => []NoStrayTemp
<1>1. StrayInv => NoStrayTemp BY DEF StrayInv
<1> QED BY <1>1, StrayInit, StrayStep, PTL DEF Spec

-----------------------------------------------------------------------------
\* The blocks after any point of a list of networks are some of its networks.
LEMMA RemainsFacts ==
    ASSUME NEW old, IsFile(old), NEW rest \in Remains(old)
    PROVE  rest \in Seq(Ssid) /\ Range(rest) \subseteq Range(old)
<1> DEFINE ns == Nets(old)
<1>1. ns \in Seq(Ssid) /\ Range(ns) \subseteq Range(old)
  BY NetsFacts
<1>2. PICK k \in 1 .. Len(ns) + 1 : rest = SubSeq(ns, k, Len(ns))
  BY DEF Remains
<1> HIDE DEF ns
<1>3. Len(ns) \in Nat /\ DOMAIN ns = 1 .. Len(ns) /\ \A i \in 1 .. Len(ns) : ns[i] \in Ssid
  BY <1>1, LenProperties, ElementOfSeq
<1>4. /\ rest \in Seq(Ssid) /\ Len(rest) = IF k <= Len(ns) THEN Len(ns) - k + 1 ELSE 0
      /\ \A i \in 1 .. Len(ns) - k + 1 : rest[i] = ns[k + i - 1]
  <2>1. k \in Int /\ Len(ns) \in Int /\ \A i \in k .. Len(ns) : ns[i] \in Ssid
    BY <1>3
  <2> QED BY <2>1, <1>2, SubSeqProperties
<1>5. ASSUME NEW i \in DOMAIN rest PROVE rest[i] \in Range(ns)
  <2>1. i \in 1 .. Len(ns) - k + 1 /\ k + i - 1 \in 1 .. Len(ns)
    BY <1>3, <1>4, LenProperties
  <2> QED BY <2>1, <1>3, <1>4 DEF Range
<1> QED BY <1>1, <1>4, <1>5 DEF Range

\* A file with more blocks behind it is a file.
LEMMA LongerFile ==
    ASSUME NEW f, IsFile(f), NEW t \in Seq(Ssid)
    PROVE  IsFile(f \o t) /\ Range(f \o t) \subseteq Range(f) \cup Range(t)
<1> DEFINE r == f \o t
<1>1. /\ f \in Seq(Cell) /\ Len(f) \in Nat /\ DOMAIN f = 1 .. Len(f)
      /\ t \in Seq(Cell) /\ Len(t) \in Nat /\ DOMAIN t = 1 .. Len(t)
      /\ \A i \in 1 .. Len(t) : t[i] \in Ssid
  BY LenProperties, SeqMonotonic, ElementOfSeq DEF IsFile, Cell
<1>2. /\ r \in Seq(Cell) /\ Len(r) = Len(f) + Len(t)
      /\ \A i \in 1 .. Len(f) + Len(t) :
            r[i] = IF i <= Len(f) THEN f[i] ELSE t[i - Len(f)]
  BY <1>1, ConcatProperties
<1> HIDE DEF r
<1>3. DOMAIN r = 1 .. Len(f) + Len(t)
  BY <1>2, LenProperties
<1>4. ASSUME NEW i \in DOMAIN r
      PROVE  \/ i \in DOMAIN f /\ r[i] = f[i]
             \/ i - Len(f) \in DOMAIN t /\ r[i] = t[i - Len(f)]
  BY <1>1, <1>2, <1>3
<1>5. IsFile(r)
  BY <1>1, <1>2, <1>4 DEF IsFile
<1>6. Range(r) \subseteq Range(f) \cup Range(t)
  BY <1>4 DEF Range
<1> QED BY <1>5, <1>6 DEF r

\* A write over older contents leaves a file of the cells of the two.
LEMMA OverlaidFacts ==
    ASSUME NEW new, IsFile(new), NEW old, IsFile(old), NEW f \in Overlaid(new, old)
    PROVE  IsFile(f) /\ Range(f) \subseteq Range(new) \cup Range(old)
<1>1. CASE f = new \/ f = old
  BY <1>1
<1>2. ASSUME NEW rest \in Remains(old), f = new \o rest
      PROVE  IsFile(f) /\ Range(f) \subseteq Range(new) \cup Range(old)
  BY <1>2, RemainsFacts, LongerFile
<1> QED BY <1>1, <1>2 DEF Overlaid

\* One that stops half-way may leave a block of any name besides.
LEMMA TornFacts ==
    ASSUME NEW new, IsFile(new), NEW old, IsFile(old), NEW f \in Torn(new, old)
    PROVE  IsFile(f) /\ Range(f) \subseteq Range(new) \cup Range(old) \cup Ssid
<1>1. CASE f \in Overlaid(new, old) \cup {old}
  BY <1>1, OverlaidFacts
<1>2. ASSUME NEW n \in 0 .. Len(new), NEW cut \in {<<>>} \cup Mixed(old),
             NEW rest \in Remains(old), f = SubSeq(new, 1, n) \o cut \o rest
      PROVE  IsFile(f) /\ Range(f) \subseteq Range(new) \cup Range(old) \cup Ssid
  <2> DEFINE start == SubSeq(new, 1, n)
             mid == start \o cut
  <2>1. IsFile(start) /\ Range(start) \subseteq Range(new)
    BY PrefixFacts
  <2>2. cut \in Seq(Ssid) /\ Range(cut) \subseteq Ssid
    <3>1. CASE cut = <<>>
      BY <3>1 DEF Range
    <3>2. ASSUME NEW s \in Ssid, cut = <<s>> PROVE cut \in Seq(Ssid) /\ Range(cut) \subseteq Ssid
      <4>1. cut \in Seq(Ssid) BY <3>2
      <4> QED BY <4>1, LenProperties, ElementOfSeq DEF Range
    <3> QED BY <3>1, <3>2 DEF Mixed
  <2>3. rest \in Seq(Ssid) /\ Range(rest) \subseteq Range(old)
    BY RemainsFacts
  <2> HIDE DEF start
  <2>4. IsFile(mid) /\ Range(mid) \subseteq Range(start) \cup Range(cut)
    BY <2>1, <2>2, LongerFile
  <2> HIDE DEF mid
  <2>5. IsFile(mid \o rest) /\ Range(mid \o rest) \subseteq Range(mid) \cup Range(rest)
    BY <2>3, <2>4, LongerFile
  <2> QED BY <1>2, <2>1, <2>2, <2>3, <2>4, <2>5 DEF start, mid
<1> QED BY <1>1, <1>2 DEF Torn

\* The cells a file may hold: the header, the installed networks, the networks
\* that some wifi_add has asked for, and any once a write may have been torn.
Allowed ==
    {Hdr} \cup Range(InitNets)
      \cup {s \in Ssid : \/ Asked("add", s) # {}
                        \/ \E c \in Conn : answer[c].status = "ioerror"}

FileOf(f, A) == IsFile(f) /\ Range(f) \subseteq A

FilesInv ==
    /\ TypeOK
    /\ NamesInv
    /\ StrayInv
    /\ \A i \in Inode : FileOf(data[i], Allowed)
    /\ \A c \in Conn : FileOf(buf[c], Allowed)

LEMMA FilesInit == Init => FilesInv
<1> SUFFICES ASSUME Init PROVE FilesInv
  OBVIOUS
<1>1. PICK i \in Inode :
        /\ dir = [n \in Name |-> IF n = "config" THEN i ELSE NoInode]
        /\ data = [j \in Inode |-> IF j = i THEN InitFile ELSE <<>>]
  BY DEF Init
<1>2. FileOf(InitFile, Allowed) /\ FileOf(<<>>, Allowed)
  BY InitFileFacts, EmptyFile DEF FileOf, Allowed
<1>3. InitFile \in Seq(Cell) /\ <<>> \in Seq(Cell) /\ <<>> \in Seq(Ssid)
  BY <1>2 DEF FileOf, IsFile
<1>4. TypeOK
  BY <1>1, <1>3 DEF Init, TypeOK, Name, Pc, Request, Answer, NoAnswer
<1> QED BY <1>1, <1>2, <1>4, NamesInit, StrayInit DEF Init, FilesInv

\* What has been asked for stays asked for, and a failure that has been answered
\* stays answered.
LEMMA AllowedGrows ==
    ASSUME TypeOK, AnswerInv, [Next]_vars
    PROVE  Allowed \subseteq Allowed'
<1> SUFFICES ASSUME NEW c \in Conn
             PROVE  /\ pc[c] # "new" => pc'[c] # "new" /\ req'[c] = req[c]
                    /\ answer[c].status = "ioerror" => answer'[c] = answer[c]
  BY DEF Allowed, Asked
<1> DEFINE Goal == /\ pc[c] # "new" => pc'[c] # "new" /\ req'[c] = req[c]
                   /\ answer[c].status = "ioerror" => answer'[c] = answer[c]
<1> USE DEF TypeOK, Goto, Reply
<1>1. ASSUME NEW d \in Conn, NEW q \in Request, Accept(d, q) PROVE Goal
  BY <1>1 DEF Accept
<1>2. ASSUME NEW d \in Conn, Step(d) PROVE Goal
  <2>1. pc[c] # "new" => pc'[c] # "new" /\ req'[c] = req[c]
    BY <1>2 DEF Step, Reject, ReadOnly, ReadEdit, ReadFails, OpenTmp, OpenFails,
                WriteTmp, WriteFails, Rename, RenameFails, Unlink, Respond
  <2>2. answer' = answer \/ (d # c /\ answer'[c] = answer[c]) \/ answer[c] = NoAnswer
    BY <1>2 DEF Step, Reject, ReadOnly, ReadEdit, ReadFails, OpenTmp, OpenFails,
                WriteTmp, WriteFails, Rename, RenameFails, Unlink, Respond, AnswerInv
  <2> QED BY <2>1, <2>2 DEF NoAnswer
<1>3. CASE Crash BY <1>3 DEF Crash
<1>4. CASE Idle \/ UNCHANGED vars BY <1>4 DEF Idle, vars
<1> QED BY <1>1, <1>2, <1>3, <1>4 DEF Next

LEMMA FilesStep == FilesInv /\ [Next]_vars => FilesInv'
<1> SUFFICES ASSUME FilesInv, [Next]_vars PROVE FilesInv'
  OBVIOUS
<1>0. /\ TypeOK /\ NamesInv /\ NamesInv' /\ StrayInv' /\ AnswerInv
      /\ Allowed \subseteq Allowed'
  BY NamesStep, StrayStep, AllowedGrows DEF FilesInv, StrayInv
<1>a. /\ \A i \in Inode : FileOf(data[i], Allowed)
      /\ \A c \in Conn : FileOf(buf[c], Allowed)
  BY DEF FilesInv
<1>c. dir["config"] \in Inode /\ FileOf(Config, Allowed) /\ IsFile(Config)
      /\ Nets(Config) \in Seq(Ssid)
  BY <1>0, <1>a, NetsFacts DEF NamesInv, Config, FileOf
<1>e. FileOf(<<>>, Allowed') /\ <<>> \in Seq(Cell) /\ <<>> \in Seq(Ssid)
  BY EmptyFile DEF FileOf, IsFile
<1>f. \A f : FileOf(f, Allowed) => FileOf(f, Allowed')
  BY <1>0 DEF FileOf
<1>s. \A f, A : FileOf(f, A) => f \in Seq(Cell)
  BY DEF FileOf, IsFile
\* It is enough that the two places that hold contents hold allowed ones.
<1> SUFFICES /\ TypeOK'
             /\ \A i \in Inode : FileOf(data'[i], Allowed')
             /\ \A c \in Conn : FileOf(buf'[c], Allowed')
  BY <1>0 DEF FilesInv
<1> USE DEF Goto, Reply
<1>1. ASSUME NEW c \in Conn, NEW q \in Request, Accept(c, q)
      PROVE  TypeOK' /\ UNCHANGED <<data, buf>>
  BY <1>1, <1>0 DEF Accept, TypeOK, Pc, InFlight
<1>2. ASSUME NEW c \in Conn, UNCHANGED <<dir, data, req, buf, fd>>, Reply(c, Declined)
      PROVE  TypeOK'
  BY <1>2, <1>0, <1>e DEF TypeOK, Pc, InFlight, Answer, Declined
<1>3. ASSUME NEW c \in Conn, UNCHANGED req, Reply(c, IOError)
      PROVE  /\ pc' \in [Conn -> Pc] /\ req' \in [Conn -> Request]
             /\ answer' \in [Conn -> Answer]
  BY <1>3, <1>0, <1>e DEF TypeOK, Pc, InFlight, Answer, IOError
<1>4. ASSUME NEW c \in Conn, Close(c)
      PROVE  /\ buf' \in [Conn -> Seq(Cell)]
             /\ fd' \in [Conn -> Inode \cup {NoInode}]
             /\ \A d \in Conn : FileOf(buf'[d], Allowed')
  BY <1>4, <1>0, <1>a, <1>e, <1>f DEF TypeOK, Close
<1>5. ASSUME NEW i \in Inode, NEW f, FileOf(f, Allowed'), data' = [data EXCEPT ![i] = f]
      PROVE  data' \in [Inode -> Seq(Cell)] /\ \A j \in Inode : FileOf(data'[j], Allowed')
  BY <1>5, <1>0, <1>a, <1>f, <1>s DEF TypeOK
<1> DEFINE Goal == /\ TypeOK'
                   /\ \A i \in Inode : FileOf(data'[i], Allowed')
                   /\ \A d \in Conn : FileOf(buf'[d], Allowed')
<1>6. ASSUME TypeOK', UNCHANGED <<data, buf>> PROVE Goal
  BY <1>6, <1>a, <1>f
<1>7. ASSUME NEW c \in Conn, Step(c) PROVE Goal
  <2>1. CASE Reject(c) BY <2>1, <1>2, <1>6 DEF Reject
  <2>2. CASE ReadOnly(c)
    <3>1. CASE Reply(c, Listed(Nets(Config)))
      BY <2>2, <3>1, <1>0, <1>c, <1>6
         DEF ReadOnly, TypeOK, Pc, InFlight, Answer, Listed
    <3>2. CASE Reply(c, Declined)
      BY <2>2, <3>2, <1>2, <1>6 DEF ReadOnly
    <3> QED BY <2>2, <3>1, <3>2 DEF ReadOnly
  <2>3. CASE ReadEdit(c)
    <3> DEFINE f == Edited(Config, req[c])
    <3>1. req[c] \in Request /\ req[c].op # "list" /\ ~Invalid(req[c])
          /\ pc[c] = "read"
      BY <2>3, <1>0 DEF ReadEdit, TypeOK
    <3>2. /\ IsFile(f)
          /\ Range(f) \subseteq Range(Config) \cup {Hdr}
               \cup (IF req[c].op = "add" THEN {req[c].ssid} ELSE {})
      BY <3>1, <1>c, EditedFacts
    <3>3. ASSUME req[c].op = "add" PROVE req[c].ssid \in Allowed
      <4>1. req[c].ssid \in Ssid /\ req[c] = [op |-> "add", ssid |-> req[c].ssid]
        BY <3>1, <3>3 DEF Request, Invalid
      <4>2. c \in Asked("add", req[c].ssid)
        BY <4>1, <3>1 DEF Asked
      <4> QED BY <4>1, <4>2 DEF Allowed
    <3>4. FileOf(f, Allowed) /\ f \in Seq(Cell)
      BY <3>2, <3>3, <1>c DEF FileOf, Allowed, IsFile
    <3>5. buf' = [buf EXCEPT ![c] = f] /\ Goto(c, "open")
          /\ UNCHANGED <<dir, data, req, fd, answer>>
      BY <2>3 DEF ReadEdit
    <3> HIDE DEF f
    <3>6. TypeOK'
      BY <3>4, <3>5, <1>0 DEF TypeOK, Pc, InFlight
    <3>7. \A d \in Conn : FileOf(buf'[d], Allowed')
      BY <3>4, <3>5, <1>0, <1>a, <1>f DEF TypeOK
    <3> QED BY <3>5, <3>6, <3>7, <1>a, <1>f
  <2>4. CASE ReadFails(c)
    <3>1. TypeOK' BY <2>4, <1>3, <1>0 DEF ReadFails, TypeOK
    <3> QED BY <2>4, <3>1, <1>6 DEF ReadFails
  <2>5. CASE OpenTmp(c)
    <3>1. PICK i \in Inode :
            /\ dir' = [dir EXCEPT !["tmp"] = i]
            /\ data' = [data EXCEPT ![i] = <<>>]
            /\ fd' = [fd EXCEPT ![c] = i]
      BY <2>5 DEF OpenTmp
    <3>2. FileOf(<<>>, Allowed')
      BY <1>e
    <3>3. data' \in [Inode -> Seq(Cell)] /\ \A j \in Inode : FileOf(data'[j], Allowed')
      BY <3>1, <3>2, <1>5
    <3>4. TypeOK'
      BY <2>5, <3>1, <3>3, <1>0 DEF OpenTmp, TypeOK, Pc, InFlight, Name
    <3>5. UNCHANGED buf BY <2>5 DEF OpenTmp
    <3> QED BY <3>3, <3>4, <3>5, <1>a, <1>f
  <2>6. CASE OpenFails(c)
    <3>1. TypeOK' BY <2>6, <1>3, <1>0 DEF OpenFails, TypeOK
    <3> QED BY <2>6, <3>1, <1>6 DEF OpenFails
  <2>7. CASE WriteTmp(c)
    <3>1. PICK f \in Overlaid(buf[c], data[fd[c]]) : data' = [data EXCEPT ![fd[c]] = f]
      BY <2>7 DEF WriteTmp
    <3>2. Close(c) /\ Goto(c, "rename") /\ UNCHANGED <<dir, req, answer>>
      BY <2>7 DEF WriteTmp
    <3>3. ASSUME fd[c] \in Inode PROVE FileOf(f, Allowed')
      <4>1. FileOf(f, Allowed)
        BY <3>3, <1>a, OverlaidFacts DEF FileOf
      <4> QED BY <4>1, <1>f
    <3>4. data' \in [Inode -> Seq(Cell)] /\ \A j \in Inode : FileOf(data'[j], Allowed')
      <4>1. CASE fd[c] \in Inode BY <4>1, <3>1, <3>3, <1>5
      <4>2. CASE fd[c] \notin Inode
        <5>1. data' = data BY <4>2, <3>1, <1>0 DEF TypeOK
        <5> QED BY <5>1, <1>0, <1>a, <1>f DEF TypeOK
      <4> QED BY <4>1, <4>2
    <3>5. TypeOK'
      BY <3>2, <3>4, <1>4, <1>0 DEF TypeOK, Pc, InFlight
    <3> QED BY <3>2, <3>4, <3>5, <1>4
  <2>8. CASE WriteFails(c)
    <3>1. PICK f \in Torn(buf[c], data[fd[c]]) : data' = [data EXCEPT ![fd[c]] = f]
      BY <2>8 DEF WriteFails
    <3>2. Close(c) /\ Reply(c, IOError) /\ UNCHANGED <<dir, req>>
      BY <2>8 DEF WriteFails
    <3>3. ASSUME fd[c] \in Inode PROVE FileOf(f, Allowed')
      <4>1. /\ IsFile(buf[c]) /\ IsFile(data[fd[c]])
            /\ Range(buf[c]) \cup Range(data[fd[c]]) \subseteq Allowed
        BY <3>3, <1>a DEF FileOf
      <4>2. IsFile(f) /\ Range(f) \subseteq Range(buf[c]) \cup Range(data[fd[c]]) \cup Ssid
        BY <4>1, TornFacts
      <4>3. answer'[c].status = "ioerror"
        BY <3>2, <1>0 DEF TypeOK, IOError
      <4>4. Ssid \subseteq Allowed'
        BY <4>3 DEF Allowed
      <4> QED BY <4>1, <4>2, <4>4, <1>0 DEF FileOf
    <3>4. data' \in [Inode -> Seq(Cell)] /\ \A j \in Inode : FileOf(data'[j], Allowed')
      <4>1. CASE fd[c] \in Inode BY <4>1, <3>1, <3>3, <1>5
      <4>2. CASE fd[c] \notin Inode
        <5>1. data' = data BY <4>2, <3>1, <1>0 DEF TypeOK
        <5> QED BY <5>1, <1>0, <1>a, <1>f DEF TypeOK
      <4> QED BY <4>1, <4>2
    <3>5. TypeOK'
      BY <3>2, <3>4, <1>3, <1>4, <1>0 DEF TypeOK
    <3> QED BY <3>2, <3>4, <3>5, <1>4
  <2>9. CASE Rename(c)
    <3>1. FileOf(<<>>, Allowed')
      BY <1>e
    <3>2. data' \in [Inode -> Seq(Cell)] /\ \A j \in Inode : FileOf(data'[j], Allowed')
      BY <2>9, <3>1, <1>c, <1>5 DEF Rename
    <3>3. TypeOK'
      BY <2>9, <3>2, <1>0, <1>e, FsAssumption
         DEF Rename, TypeOK, Pc, InFlight, Answer, Done, Name
    <3>4. UNCHANGED buf BY <2>9 DEF Rename
    <3> QED BY <3>2, <3>3, <3>4, <1>a, <1>f
  <2>10. CASE RenameFails(c)
    <3>1. TypeOK' BY <2>10, <1>0 DEF RenameFails, TypeOK, Pc, InFlight
    <3> QED BY <2>10, <3>1, <1>6 DEF RenameFails
  <2>11. CASE Unlink(c)
    <3>1. TypeOK' BY <2>11, <1>3, <1>0 DEF Unlink, TypeOK, Name
    <3> QED BY <2>11, <3>1, <1>6 DEF Unlink
  <2>12. CASE Respond(c)
    <3>1. TypeOK' BY <2>12, <1>0 DEF Respond, TypeOK, Pc
    <3> QED BY <2>12, <3>1, <1>6 DEF Respond
  <2> HIDE DEF Goal
  <2> QED BY <1>7, <2>1, <2>2, <2>3, <2>4, <2>5, <2>6, <2>7, <2>8, <2>9,
             <2>10, <2>11, <2>12 DEF Step
<1>8. CASE Crash
  <2>1. TypeOK'
    BY <1>8, <1>0, <1>e DEF Crash, TypeOK, Pc
  <2> QED BY <1>8, <2>1, <1>a, <1>e, <1>f DEF Crash
<1>9. CASE Idle \/ UNCHANGED vars
  <2>1. TypeOK' BY <1>9, <1>0 DEF Idle, vars, TypeOK
  <2> QED BY <1>9, <2>1, <1>6 DEF Idle, vars
<1> QED
  <2> HIDE DEF Goal
  <2>1. ASSUME NEW c \in Conn, NEW q \in Request, Accept(c, q) PROVE Goal
    BY <2>1, <1>1, <1>6
  <2>2. Goal
    BY <2>1, <1>7, <1>8, <1>9 DEF Next, Goal
  <2> QED BY <2>2 DEF Goal

\* Types, for any number of concurrent requests: in particular everything any
\* interleaving of opens, writes and renames leaves in a file parses.
THEOREM TypeCorrect == Spec => []TypeOK
<1>1. FilesInv => TypeOK BY DEF FilesInv
<1> QED BY <1>1, FilesInit, FilesStep, PTL DEF Spec

\* For any number of concurrent requests, failing or dying at any step: each
\* network in the published file was installed or asked for by a valid wifi_add.
THEOREM NothingInvented == Spec => []OnlyRequested
<1>1. FilesInv => OnlyRequested
  <2> SUFFICES ASSUME FilesInv, NEW s \in Range(Nets(Config)),
                      \A c \in Conn : answer[c].status # "ioerror"
               PROVE  s \in Range(InitNets) \/ \E c \in Asked("add", s) : s # Blank
    BY DEF OnlyRequested
  <2>1. IsFile(Config) /\ Range(Config) \subseteq Allowed
    BY DEF FilesInv, NamesInv, Config, FileOf
  <2>2. s \in Allowed \ {Hdr}
    BY <2>1, NetsFacts
  <2>3. CASE s \in Ssid /\ Asked("add", s) # {}
    BY <2>3, DocAssumption
  <2> QED BY <2>2, <2>3 DEF Allowed
<1> QED BY <1>1, FilesInit, FilesStep, PTL DEF Spec

-----------------------------------------------------------------------------
(***************************************************************************)
(* Part 2: one request at a time, the files implement the atomic store.    *)
(***************************************************************************)

\* The store's vocabulary is the same under its instance name.
LEMMA SameDoc ==
    /\ \A f, q : Store!Edited(f, q) = Edited(f, q)
    /\ \A f, q : Store!Refused(f, q) = Refused(f, q)
    /\ \A f : Store!Nets(f) = Nets(f)
    /\ \A q : Store!Invalid(q) = Invalid(q)
    /\ Store!Request = Request
    /\ Store!InitFile = InitFile
    /\ Store!NoAnswer = NoAnswer /\ Store!Done = Done
    /\ Store!Declined = Declined /\ Store!IOError = IOError
    /\ \A ns : Store!Listed(ns) = Listed(ns)
<1>1. \A f : Store!Nets(f) = Nets(f)
  BY DEF Store!Nets, Nets, Store!HasHeader, HasHeader
<1>2. \A f, q : Store!Refused(f, q) = Refused(f, q)
  BY <1>1 DEF Store!Refused, Refused, Store!Range, Range
<1>3. \A ns, x : Store!Without(ns, x) = Without(ns, x)
  BY DEF Store!Without, Without, Store!Kept, Kept
<1>4. \A f, q : Store!Edited(f, q) = Edited(f, q)
  BY <1>1, <1>3 DEF Store!Edited, Edited, Store!Render, Render,
                    Store!HasHeader, HasHeader
<1>5. /\ \A q : Store!Invalid(q) = Invalid(q)
      /\ Store!Request = Request
      /\ Store!InitFile = InitFile
  BY DEF Store!Invalid, Invalid, Store!Request, Request, Store!InitFile, InitFile
<1>6. /\ Store!NoAnswer = NoAnswer /\ Store!Done = Done
      /\ Store!Declined = Declined /\ Store!IOError = IOError
      /\ \A ns : Store!Listed(ns) = Listed(ns)
  BY DEF Store!NoAnswer, NoAnswer, Store!Done, Done, Store!Declined, Declined,
         Store!IOError, IOError, Store!Listed, Listed
<1> QED BY <1>1, <1>2, <1>4, <1>5, <1>6

-----------------------------------------------------------------------------
\* A request that Add or Remove goes on to write.
Editable(c) ==
    req[c].op # "list" /\ ~Invalid(req[c]) /\ ~Refused(Config, req[c])

\* The only request in flight carries, at each step of write, the contents that
\* the store would have after it; so its Rename publishes exactly those.
SerialInv ==
    /\ NamesInv
    /\ DOMAIN data = Inode
    /\ DOMAIN req = Conn /\ DOMAIN buf = Conn /\ DOMAIN fd = Conn
    /\ \A c, d \in Conn : pc[c] \in InFlight /\ pc[d] \in InFlight => c = d
    /\ \A c \in Conn :
         /\ pc[c] \in {"open", "write", "rename"} => Editable(c)
         /\ pc[c] \in {"open", "write"} => buf[c] = Edited(Config, req[c])
         /\ pc[c] = "write" => /\ fd[c] = dir["tmp"] /\ dir["tmp"] \in Inode
                               /\ data[dir["tmp"]] = <<>>
         /\ pc[c] = "rename" => /\ dir["tmp"] \in Inode
                                /\ data[dir["tmp"]] = Edited(Config, req[c])

LEMMA SerialInit == Init => SerialInv
  BY NamesInit, FsAssumption DEF Init, SerialInv, InFlight

LEMMA OverlaidEmpty == \A new : Overlaid(new, <<>>) = {new}
  BY DEF Overlaid

LEMMA SerialStep == ASSUME Serial PROVE SerialInv /\ [Next]_vars => SerialInv'
<1> SUFFICES ASSUME SerialInv, [Next]_vars PROVE SerialInv'
  OBVIOUS
<1>0. NamesInv /\ NamesInv'
  BY NamesStep DEF SerialInv
<1> USE <1>0 DEF SerialInv, Goto, Reply, InFlight, Editable, Config
<1>1. ASSUME NEW c \in Conn, NEW q \in Request, Accept(c, q) PROVE SerialInv'
  BY <1>1 DEF Accept, NamesInv
<1>2. ASSUME NEW c \in Conn, Step(c) PROVE SerialInv'
  <2>t. /\ DOMAIN pc = Conn /\ dir["config"] \in Inode /\ dir["config"] # dir["tmp"]
        /\ DOMAIN dir = Name
    BY DEF NamesInv
  <2> USE <2>t
  <2>1. CASE Reject(c) BY <2>1 DEF Reject
  <2>2. CASE ReadOnly(c) BY <2>2 DEF ReadOnly
  <2>3. CASE ReadEdit(c) BY <2>3 DEF ReadEdit
  <2>4. CASE ReadFails(c) BY <2>4 DEF ReadFails
  <2>5. CASE OpenTmp(c)
    <3>1. PICK i \in Inode :
            /\ IF dir["tmp"] = NoInode THEN i \notin InUse ELSE i = dir["tmp"]
            /\ dir' = [dir EXCEPT !["tmp"] = i]
            /\ data' = [data EXCEPT ![i] = <<>>]
            /\ fd' = [fd EXCEPT ![c] = i]
      BY <2>5 DEF OpenTmp
    <3>2. i # dir["config"]
      BY <3>1 DEF InUse, Name
    <3>3. dir'["tmp"] = i /\ dir'["config"] = dir["config"] /\ Config' = Config
      BY <3>1, <3>2 DEF Name
    <3> QED BY <2>5, <3>1, <3>2, <3>3 DEF OpenTmp
  <2>6. CASE OpenFails(c) BY <2>6 DEF OpenFails
  <2>7. CASE WriteTmp(c)
    <3>1. data'[dir["tmp"]] = Edited(Config, req[c]) /\ Config' = Config
      BY <2>7, OverlaidEmpty DEF WriteTmp
    <3> QED BY <2>7, <3>1 DEF WriteTmp, Close
  <2>8. CASE WriteFails(c)
    <3>1. Config' = Config BY <2>8 DEF WriteFails
    <3> QED BY <2>8, <3>1 DEF WriteFails, Close
  <2>9. CASE Rename(c) BY <2>9 DEF Rename
  <2>10. CASE RenameFails(c) BY <2>10 DEF RenameFails
  <2>11. CASE Unlink(c) BY <2>11 DEF Unlink
  <2>12. CASE Respond(c) BY <2>12 DEF Respond
  <2> QED BY <1>2, <2>1, <2>2, <2>3, <2>4, <2>5, <2>6, <2>7, <2>8, <2>9,
             <2>10, <2>11, <2>12 DEF Step
<1>3. CASE Crash BY <1>3 DEF Crash, NamesInv
<1>4. CASE Idle \/ UNCHANGED vars BY <1>4 DEF Idle, vars
<1> QED BY <1>1, <1>2, <1>3, <1>4 DEF Next

-----------------------------------------------------------------------------
PhaseMap == [d \in Conn |-> PhaseOf(pc[d])]

LEMMA PhaseMove ==
    ASSUME NEW c \in Conn, NEW label, DOMAIN pc = Conn,
           pc' = [pc EXCEPT ![c] = label]
    PROVE  PhaseMap' = [PhaseMap EXCEPT ![c] = PhaseOf(label)]
  BY DEF PhaseMap

\* Between the first and the last step of a request the store sees nothing.
LEMMA PhaseStays ==
    ASSUME NEW c \in Conn, NEW label, DOMAIN pc = Conn,
           pc' = [pc EXCEPT ![c] = label], PhaseOf(label) = PhaseOf(pc[c])
    PROVE  PhaseMap' = PhaseMap
  BY DEF PhaseMap

LEMMA StoreInitMaps == Init => Store!StoreInit
<1> SUFFICES ASSUME Init PROVE Store!StoreInit
  OBVIOUS
<1>1. Config = InitFile
  BY FsAssumption DEF Init, Config, Name
<1>2. [c \in Conn |-> PhaseOf(pc[c])] = [c \in Conn |-> "new"]
  BY DEF Init, PhaseOf
<1> QED BY <1>1, <1>2, SameDoc DEF Init, Store!StoreInit

LEMMA StoreStepMaps ==
    ASSUME Serial
    PROVE  SerialInv /\ [Next]_vars => [Store!StoreNext]_Store!svars
<1> SUFFICES ASSUME SerialInv, [Next]_vars
             PROVE  Store!StoreNext \/ UNCHANGED Store!svars
  OBVIOUS
<1>t. /\ DOMAIN pc = Conn /\ DOMAIN data = Inode
      /\ dir["config"] \in Inode /\ dir["config"] # dir["tmp"] /\ DOMAIN dir = Name
  BY DEF SerialInv, NamesInv
<1>p. PhaseMap = [d \in Conn |-> PhaseOf(pc[d])]
  BY DEF PhaseMap
<1> USE <1>t
<1>1. ASSUME NEW c \in Conn, NEW q \in Request, Accept(c, q)
      PROVE  Store!Begin(c, q)
  <2>1. PhaseMap[c] = "new" /\ PhaseMap' = [PhaseMap EXCEPT ![c] = "open"]
    BY <1>1, PhaseMove DEF Accept, Goto, PhaseMap, PhaseOf
  <2> QED BY <1>1, <2>1 DEF Accept, Store!Begin, Config, PhaseMap
<1>2. ASSUME NEW c \in Conn, pc[c] \in InFlight \ {"reply"}, NEW a, Reply(c, a),
             UNCHANGED req
      PROVE  Store!Settle(c, a)
  <2>1. PhaseMap[c] = "open" /\ PhaseMap' = [PhaseMap EXCEPT ![c] = "answered"]
    BY <1>2, PhaseMove DEF Reply, Goto, PhaseMap, PhaseOf, InFlight
  <2> QED BY <1>2, <2>1 DEF Reply, Store!Settle, PhaseMap
<1>3. ASSUME NEW c \in Conn, pc[c] \in InFlight \ {"reply"}, Reply(c, IOError),
             UNCHANGED req, Config' = Config
      PROVE  Store!Fail(c)
  BY <1>2, <1>3, SameDoc DEF Store!Fail
<1>4. ASSUME NEW c \in Conn, NEW label, pc' = [pc EXCEPT ![c] = label],
             pc[c] \in InFlight \ {"reply"}, label \in InFlight \ {"reply"},
             UNCHANGED <<req, answer>>, Config' = Config
      PROVE  UNCHANGED Store!svars
  <2>1. PhaseMap' = PhaseMap
    BY <1>4, PhaseStays DEF PhaseOf, InFlight
  <2> QED BY <1>4, <2>1 DEF Store!svars, PhaseMap
<1> DEFINE Maps(c) == \/ Store!ListStore(c) \/ Store!Decline(c)
                      \/ Store!Commit(c) \/ Store!Fail(c) \/ Store!Deliver(c)
                      \/ UNCHANGED Store!svars
<1>5. ASSUME NEW c \in Conn, Step(c) PROVE Maps(c)
  <2>1. CASE Reject(c)
    BY <2>1, <1>2, SameDoc DEF Reject, Store!Decline, InFlight, Config
  <2>2. CASE ReadOnly(c)
    <3>1. CASE req[c].op = "list" /\ Reply(c, Listed(Nets(Config)))
      BY <2>2, <3>1, <1>2, SameDoc DEF ReadOnly, Store!ListStore, InFlight, Config
    <3>2. CASE Refused(Config, req[c]) /\ Reply(c, Declined)
      BY <2>2, <3>2, <1>2, SameDoc DEF ReadOnly, Store!Decline, InFlight, Config
    <3> QED BY <2>2, <3>1, <3>2 DEF ReadOnly
  <2>3. CASE ReadEdit(c)
    BY <2>3, <1>4 DEF ReadEdit, Goto, InFlight, Config
  <2>4. CASE ReadFails(c) BY <2>4, <1>3 DEF ReadFails, InFlight, Config
  <2>5. CASE OpenTmp(c)
    <3>1. PICK i \in Inode :
            /\ IF dir["tmp"] = NoInode THEN i \notin InUse ELSE i = dir["tmp"]
            /\ dir' = [dir EXCEPT !["tmp"] = i]
            /\ data' = [data EXCEPT ![i] = <<>>]
      BY <2>5 DEF OpenTmp
    <3>2. i # dir["config"]
      BY <3>1 DEF InUse, Name
    <3>3. Config' = Config
      BY <3>1, <3>2 DEF Name, Config
    <3> QED BY <2>5, <3>3, <1>4 DEF OpenTmp, Goto, InFlight
  <2>6. CASE OpenFails(c) BY <2>6, <1>3 DEF OpenFails, InFlight, Config
  <2>7. CASE WriteTmp(c)
    <3>1. Config' = Config BY <2>7 DEF WriteTmp, Config, SerialInv
    <3> QED BY <2>7, <3>1, <1>4 DEF WriteTmp, Goto, InFlight
  <2>8. CASE WriteFails(c)
    <3>1. Config' = Config BY <2>8 DEF WriteFails, Config, SerialInv
    <3> QED BY <2>8, <3>1, <1>3 DEF WriteFails, InFlight
  <2>9. CASE Rename(c)
    <3>1. Config' = Edited(Config, req[c])
      BY <2>9 DEF Rename, Config, SerialInv, Name
    <3>2. Editable(c)
      BY <2>9 DEF Rename, SerialInv
    <3> QED BY <2>9, <3>1, <3>2, <1>2, SameDoc
            DEF Rename, Store!Commit, Editable, InFlight
  <2>10. CASE RenameFails(c)
    BY <2>10, <1>4 DEF RenameFails, Goto, InFlight, Config
  <2>11. CASE Unlink(c) BY <2>11, <1>3 DEF Unlink, InFlight, Config, Name
  <2>12. CASE Respond(c)
    <3>1. PhaseMap[c] = "answered" /\ PhaseMap' = [PhaseMap EXCEPT ![c] = "done"]
      BY <2>12, PhaseMove DEF Respond, Goto, PhaseMap, PhaseOf
    <3> QED BY <2>12, <3>1 DEF Respond, Store!Deliver, Config, PhaseMap
  <2> QED BY <1>5, <2>1, <2>2, <2>3, <2>4, <2>5, <2>6, <2>7, <2>8, <2>9,
             <2>10, <2>11, <2>12 DEF Step
<1>6. CASE Crash
  <2>1. PhaseMap' = [d \in Conn |-> IF PhaseMap[d] \in {"open", "answered"}
                                      THEN "gone" ELSE PhaseMap[d]]
    BY <1>6 DEF Crash, PhaseMap, PhaseOf, InFlight, Pc, SerialInv, NamesInv
  <2>2. Store!Die
    BY <1>6, <2>1 DEF Crash, Store!Die, PhaseMap, Config
  <2> QED BY <2>2 DEF Store!StoreNext
<1>7. CASE Idle \/ UNCHANGED vars
  BY <1>7 DEF Idle, vars, Store!svars, Config
<1>8. ASSUME NEW c \in Conn, Step(c)
      PROVE  Store!StoreNext \/ UNCHANGED Store!svars
  BY <1>8, <1>5 DEF Store!StoreNext
<1>9. ASSUME NEW c \in Conn, NEW q \in Request, Accept(c, q) PROVE Store!StoreNext
  BY <1>9, <1>1, SameDoc DEF Store!StoreNext
<1> QED BY <1>6, <1>7, <1>8, <1>9 DEF Next

\* When each client waits for its reply, the daemon's files are an atomic store
\* of networks: every request takes effect in one step or not at all, for any
\* number of requests, failing system calls and crashes between any two steps.
THEOREM SerialImplementsStore == ASSUME Serial PROVE Spec => ImplementsStore
  BY SerialInit, SerialStep, StoreInitMaps, StoreStepMaps, PTL
     DEF Spec, ImplementsStore, Store!StoreSpec

-----------------------------------------------------------------------------
(***************************************************************************)
(* Part 3: one request at a time, what the saved networks keep.            *)
(***************************************************************************)

\* The published contents change in a Rename, to what its request asked for.
LEMMA ConfigMoves ==
    ASSUME SerialInv, FilesInv, [Next]_vars
    PROVE  \/ Config' = Config
           \/ \E c \in Conn : /\ Rename(c) /\ Editable(c)
                              /\ Config' = Edited(Config, req[c])
<1>t. /\ DOMAIN pc = Conn /\ DOMAIN data = Inode
      /\ dir["config"] \in Inode /\ dir["config"] # dir["tmp"] /\ DOMAIN dir = Name
  BY DEF SerialInv, NamesInv
<1> USE <1>t DEF Config
<1>1. ASSUME NEW c \in Conn, Step(c), ~Rename(c) PROVE Config' = Config
  <2>1. CASE OpenTmp(c)
    <3>1. PICK i \in Inode :
            /\ IF dir["tmp"] = NoInode THEN i \notin InUse ELSE i = dir["tmp"]
            /\ dir' = [dir EXCEPT !["tmp"] = i]
            /\ data' = [data EXCEPT ![i] = <<>>]
      BY <2>1 DEF OpenTmp
    <3>2. i # dir["config"]
      BY <3>1 DEF InUse, Name
    <3> QED BY <3>1, <3>2 DEF Name
  <2>2. CASE WriteTmp(c) BY <2>2 DEF WriteTmp, SerialInv
  <2>3. CASE WriteFails(c) BY <2>3 DEF WriteFails, SerialInv
  <2>4. CASE Unlink(c) BY <2>4 DEF Unlink, Name
  <2> QED BY <1>1, <2>1, <2>2, <2>3, <2>4
          DEF Step, Reject, ReadOnly, ReadEdit, ReadFails, OpenFails, RenameFails, Respond
<1>2. ASSUME NEW c \in Conn, Rename(c)
      PROVE  Editable(c) /\ Config' = Edited(Config, req[c])
  BY <1>2 DEF Rename, SerialInv, Name
<1>3. ASSUME NEW c \in Conn, NEW q \in Request, Accept(c, q) PROVE Config' = Config
  BY <1>3 DEF Accept
<1>4. CASE Crash \/ Idle \/ UNCHANGED vars
  BY <1>4 DEF Crash, Idle, vars
<1> QED BY <1>1, <1>2, <1>3, <1>4 DEF Next

\* A network leaves the file only in a Rename of a wifi_remove that names it, and
\* is in it after a Rename of a wifi_add that does.
LEMMA NetworkStays ==
    ASSUME SerialInv, FilesInv, [Next]_vars, NEW s, s \in Range(Nets(Config)),
           Asked("remove", s)' = {}
    PROVE  s \in Range(Nets(Config))'
<1>1. CASE Config' = Config
  BY <1>1 DEF Nets, HasHeader, Range
<1>2. ASSUME NEW c \in Conn, Rename(c), Editable(c), Config' = Edited(Config, req[c])
      PROVE  s \in Range(Nets(Config))'
  <2>1. /\ IsFile(Config) /\ req[c] \in Request /\ pc[c] = "rename" /\ req' = req
        /\ pc'[c] # "new"
    BY <1>2 DEF FilesInv, FileOf, NamesInv, Config, TypeOK, Rename, Reply, Goto
  <2>2. /\ req[c].op = "add" =>
             Range(Nets(Edited(Config, req[c]))) = Range(Nets(Config)) \cup {req[c].ssid}
        /\ req[c].op = "remove" =>
             Range(Nets(Edited(Config, req[c]))) = Range(Nets(Config)) \ {req[c].ssid}
    BY <1>2, <2>1, EditedFacts DEF Editable
  <2>3. Range(Nets(Config))' = Range(Nets(Edited(Config, req[c])))
    BY <1>2 DEF Nets, HasHeader, Range
  <2>4. CASE req[c].op = "add"
    BY <2>2, <2>3, <2>4
  <2>5. CASE req[c].op = "remove"
    <3>1. req[c] = [op |-> "remove", ssid |-> req[c].ssid]
      BY <2>1, <2>5 DEF Request
    <3>2. req[c].ssid # s
      BY <3>1, <2>1 DEF Asked
    <3> QED BY <3>2, <2>2, <2>3, <2>5
  <2> QED BY <2>1, <2>4, <2>5, <1>2 DEF Request, Editable
<1> QED BY <1>1, <1>2, ConfigMoves

\* What has been asked for has not been asked for only now.
LEMMA AskedGrows ==
    ASSUME FilesInv, [Next]_vars, NEW o, NEW s, Asked(o, s)' = {}
    PROVE  Asked(o, s) = {}
<1> SUFFICES ASSUME NEW c \in Conn, pc[c] # "new"
             PROVE  pc'[c] # "new" /\ req'[c] = req[c]
  BY DEF Asked
<1> USE DEF FilesInv, TypeOK, Goto, Reply
<1>1. ASSUME NEW d \in Conn, NEW q \in Request, Accept(d, q)
      PROVE pc'[c] # "new" /\ req'[c] = req[c]
  BY <1>1 DEF Accept
<1>2. ASSUME NEW d \in Conn, Step(d)
      PROVE pc'[c] # "new" /\ req'[c] = req[c]
  BY <1>2 DEF Step, Reject, ReadOnly, ReadEdit, ReadFails, OpenTmp, OpenFails,
              WriteTmp, WriteFails, Rename, RenameFails, Unlink, Respond
<1>3. CASE Crash BY <1>3 DEF Crash
<1>4. CASE Idle \/ UNCHANGED vars BY <1>4 DEF Idle, vars
<1> QED BY <1>1, <1>2, <1>3, <1>4 DEF Next

\* What was installed and what was reported as saved, whether or not a request
\* is running.
InstalledStay ==
    \A s \in Range(InitNets) : Asked("remove", s) = {} => s \in Range(Nets(Config))

KeepInv == SerialInv /\ FilesInv /\ InstalledStay /\ AddAppends

LEMMA KeepInit == Init => KeepInv
<1> SUFFICES ASSUME Init PROVE KeepInv
  OBVIOUS
<1>1. Config = InitFile
  BY FsAssumption DEF Init, Config, Name
<1>2. InstalledStay
  BY <1>1, InitFileFacts DEF InstalledStay
<1>3. AddAppends
  BY DEF Init, AddAppends
<1> QED BY <1>2, <1>3, SerialInit, FilesInit DEF KeepInv

\* An add is answered with ok in its Rename, and nowhere else.
LEMMA SavedByRename ==
    ASSUME SerialInv, FilesInv, [Next]_vars, NEW c \in Conn,
           pc'[c] \in {"reply", "done"}, req'[c].op = "add", answer'[c].status = "ok"
    PROVE  \/ /\ pc[c] \in {"reply", "done"} /\ req[c] = req'[c] /\ answer[c] = answer'[c]
           \/ Rename(c) /\ req[c] = req'[c]
<1> USE DEF FilesInv, TypeOK, Goto, Reply
<1>1. ASSUME NEW d \in Conn, NEW q \in Request, Accept(d, q)
      PROVE  pc[c] \in {"reply", "done"} /\ req[c] = req'[c] /\ answer[c] = answer'[c]
  BY <1>1 DEF Accept
<1>2. ASSUME NEW d \in Conn, Step(d), d # c
      PROVE  pc[c] \in {"reply", "done"} /\ req[c] = req'[c] /\ answer[c] = answer'[c]
  BY <1>2 DEF Step, Reject, ReadOnly, ReadEdit, ReadFails, OpenTmp, OpenFails,
              WriteTmp, WriteFails, Rename, RenameFails, Unlink, Respond
<1>3. ASSUME Step(c)
      PROVE  \/ /\ pc[c] \in {"reply", "done"} /\ req[c] = req'[c] /\ answer[c] = answer'[c]
             \/ Rename(c) /\ req[c] = req'[c]
  <2>1. CASE Rename(c) BY <2>1 DEF Rename
  <2>2. CASE Respond(c) BY <2>2 DEF Respond
  <2>3. CASE Reject(c) \/ ReadOnly(c)
    BY <2>3 DEF Reject, ReadOnly, Declined
  <2>4. CASE ReadFails(c) \/ OpenFails(c) \/ WriteFails(c) \/ Unlink(c)
    BY <2>4 DEF ReadFails, OpenFails, WriteFails, Unlink, IOError
  <2>5. CASE ReadEdit(c) \/ OpenTmp(c) \/ WriteTmp(c) \/ RenameFails(c)
    BY <2>5 DEF ReadEdit, OpenTmp, WriteTmp, RenameFails
  <2> QED BY <1>3, <2>1, <2>2, <2>3, <2>4, <2>5 DEF Step
<1>4. CASE Crash \/ Idle \/ UNCHANGED vars
  BY <1>4 DEF Crash, Idle, vars, InFlight
<1> QED BY <1>1, <1>2, <1>3, <1>4 DEF Next

LEMMA KeepStep == ASSUME Serial PROVE KeepInv /\ [Next]_vars => KeepInv'
<1> SUFFICES ASSUME KeepInv, [Next]_vars PROVE KeepInv'
  OBVIOUS
<1>0. SerialInv /\ FilesInv /\ SerialInv' /\ FilesInv'
  BY SerialStep, FilesStep DEF KeepInv
<1>1. InstalledStay'
  <2> SUFFICES ASSUME NEW s \in Range(InitNets), Asked("remove", s)' = {}
               PROVE  s \in Range(Nets(Config))'
    BY DEF InstalledStay, Range
  <2>1. s \in Range(Nets(Config))
    BY <1>0, AskedGrows DEF KeepInv, InstalledStay
  <2> QED BY <2>1, <1>0, NetworkStays
<1>2. AddAppends'
  <2> SUFFICES ASSUME NEW c \in Conn, pc'[c] \in {"reply", "done"}, req'[c].op = "add",
                      answer'[c].status = "ok", Asked("remove", req[c].ssid)' = {},
                      req'[c] = req[c]
               PROVE  req[c].ssid \in Range(Nets(Config))'
    <3>1. ASSUME NEW c \in Conn, pc'[c] \in {"reply", "done"}, req'[c].op = "add",
                 answer'[c].status = "ok"
          PROVE  req'[c] = req[c]
      BY <3>1, <1>0, SavedByRename
    <3> QED BY <3>1 DEF AddAppends, Asked
  <2>1. CASE pc[c] \in {"reply", "done"} /\ answer[c] = answer'[c]
    <3>1. req[c].ssid \in Range(Nets(Config))
      BY <2>1, <1>0, AskedGrows DEF KeepInv, AddAppends
    <3> QED BY <3>1, <1>0, NetworkStays
  <2>2. CASE Rename(c)
    <3>1. /\ IsFile(Config) /\ req[c] \in Request /\ Editable(c)
          /\ Config' = Edited(Config, req[c])
      BY <2>2, <1>0 DEF FilesInv, FileOf, NamesInv, Config, TypeOK, Rename, SerialInv, Name
    <3>2. Range(Nets(Edited(Config, req[c]))) = Range(Nets(Config)) \cup {req[c].ssid}
      BY <3>1, EditedFacts DEF Editable
    <3>3. Range(Nets(Config))' = Range(Nets(Edited(Config, req[c])))
      BY <3>1 DEF Nets, HasHeader, Range
    <3> QED BY <3>2, <3>3
  <2> QED BY <2>1, <2>2, <1>0, SavedByRename
<1> QED BY <1>0, <1>1, <1>2 DEF KeepInv

\* When each client waits for its reply, a network reported as saved is in the
\* file until a wifi_remove names it, whatever failed or died before and since.
THEOREM SavedStaysSaved == ASSUME Serial PROVE Spec => []AddAppends
<1>1. KeepInv => AddAppends BY DEF KeepInv
<1> QED BY <1>1, KeepInit, KeepStep, PTL DEF Spec

\* When each client waits for its reply, no request, failed or not, costs the
\* file a network that it did not name.
THEOREM InstalledSurvive == ASSUME Serial PROVE Spec => []OthersSurvive
<1>1. KeepInv => OthersSurvive BY DEF KeepInv, InstalledStay, OthersSurvive
<1> QED BY <1>1, KeepInit, KeepStep, PTL DEF Spec

-----------------------------------------------------------------------------
OnceInv == SerialInv /\ FilesInv /\ Distinct(Nets(Config))

LEMMA OnceStep == ASSUME Serial PROVE OnceInv /\ [Next]_vars => OnceInv'
<1> SUFFICES ASSUME OnceInv, [Next]_vars PROVE OnceInv'
  OBVIOUS
<1>0. SerialInv /\ FilesInv /\ SerialInv' /\ FilesInv'
  BY SerialStep, FilesStep DEF OnceInv
<1>1. CASE Config' = Config
  <2>1. Distinct(Nets(Config))'
    BY <1>1 DEF OnceInv, Distinct, Nets, HasHeader
  <2> QED BY <2>1, <1>0 DEF OnceInv
<1>2. ASSUME NEW c \in Conn, Rename(c), Editable(c), Config' = Edited(Config, req[c])
      PROVE  OnceInv'
  <2>1. IsFile(Config) /\ req[c] \in Request
    BY <1>0 DEF FilesInv, FileOf, NamesInv, Config, TypeOK
  <2>2. Distinct(Nets(Edited(Config, req[c])))
    BY <1>2, <2>1, EditedFacts DEF Editable, OnceInv
  <2>3. Distinct(Nets(Config))'
    BY <1>2, <2>2 DEF Distinct, Nets, HasHeader
  <2> QED BY <2>3, <1>0 DEF OnceInv
<1> QED BY <1>0, <1>1, <1>2, ConfigMoves

\* When each client waits for its reply, and the installed list names no network
\* twice, no list of requests, failures and crashes gives an SSID two blocks.
THEOREM NamedOnce ==
    ASSUME Serial, Distinct(InitNets) PROVE Spec => []NoDuplicates
<1>1. Init => OnceInv
  <2> SUFFICES ASSUME Init PROVE OnceInv
    OBVIOUS
  <2>1. Config = InitFile
    BY FsAssumption DEF Init, Config, Name
  <2> QED BY <2>1, InitFileFacts, SerialInit, FilesInit DEF OnceInv
<1>2. OnceInv => NoDuplicates
  BY DEF OnceInv, Distinct, NoDuplicates
<1> QED BY <1>1, <1>2, OnceStep, PTL DEF Spec
===============================================================================
