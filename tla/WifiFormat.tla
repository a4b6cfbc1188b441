------------------------------ MODULE WifiFormat -------------------------------
(***************************************************************************)
(* The text of wpa_supplicant-wlan1.conf, line by line, under wifi_add and *)
(* wifi_remove one at a time: what parse makes of a file that ansible      *)
(* installed or a person edited, and what of it write puts back.  The file *)
(* is installed with raw text between two quotation marks, written with    *)
(* fmt's %q, which escapes quotation marks and backslashes, and read by    *)
(* unquote, which takes off the outer marks and nothing else.              *)
(*                                                                         *)
(* WifiConfig has the system calls, on WifiDoc's cells; CellsSuffice says  *)
(* when the cells are right.  A value is a sequence of characters, of      *)
(* which only the two that %q escapes are told apart; what else it may     *)
(* escape (controls, invalid UTF-8) drifts in the same way.  Lines are     *)
(* shorter than bufio.Scanner's limit, and without blanks at their ends.   *)
(***************************************************************************)
EXTENDS Naturals, SequencesExt

CONSTANTS
    Installed,  \* files that the package may find, as sequences of lines
    Names,      \* SSIDs that wifi_add may be given
    Phrases,    \* and passphrases, all within Add's bounds
    Writes      \* how often the file is written

Char == {"plain", "quote", "slash"}
Text == Seq(Char)

\* A line is a field of a block, with what follows its "=", or bare.
Bare(k) == [kind |-> k, text |-> <<>>]
Field(k, t) == [kind |-> k, text |-> t]
Open == Bare("open")        \* network={
Shut == Bare("shut")        \* }
Empty == Bare("empty")
Kinds == {"ssid", "psk", "open", "shut", "empty", "other"}

ASSUME FormatAssumption ==
    /\ Installed \subseteq Seq([kind : Kinds, text : Text])
    /\ Names \subseteq Text \ {<<>>} /\ Phrases \subseteq Text
    /\ Writes \in Nat

Times(c, n) == [i \in 1 .. n |-> c]

\* 2^n.
Doubled(n) == LET d[k \in 0 .. n] == IF k = 0 THEN 1 ELSE 2 * d[k - 1] IN d[n]

\* What is left of a sequence without the elements of a set.
Without(seq, S) ==
    FlattenSeq([i \in DOMAIN seq |-> IF seq[i] \in S THEN <<>> ELSE <<seq[i]>>])

-----------------------------------------------------------------------------
\* %q, without and with its quotation marks.
Escape(t) ==
    FlattenSeq([i \in DOMAIN t |-> IF t[i] = "plain" THEN <<t[i]>>
                                                    ELSE <<"slash", t[i]>>])
Quoted(t) == <<"quote">> \o Escape(t) \o <<"quote">>

\* unquote: the outer marks go, the escapes stay.
Unquote(t) ==
    IF Len(t) >= 2 /\ Head(t) = "quote" /\ Last(t) = "quote"
      THEN SubSeq(t, 2, Len(t) - 1)
      ELSE t

NoNetwork == [ssid |-> <<>>, psk |-> <<>>]
Start == [header |-> <<>>, inBlock |-> FALSE, cur |-> NoNetwork, nets |-> <<>>,
          headerDone |-> FALSE]

\* Mutant: a block starts with what the one before has left.
OpenedOn(st) == [st EXCEPT !.headerDone = TRUE, !.inBlock = TRUE]

Opened(st) == [st EXCEPT !.headerDone = TRUE, !.inBlock = TRUE, !.cur = NoNetwork]

\* Mutant: a block without a name is a network.
ShutUnnamed(st) == [st EXCEPT !.inBlock = FALSE, !.nets = Append(@, st.cur)]

\* A block without a name is none.
Closed(st) ==
    [st EXCEPT !.inBlock = FALSE,
               !.nets = IF st.cur.ssid = <<>> THEN @ ELSE Append(@, st.cur)]

\* One turn of parse's loop.
Scan(st, line) ==
    CASE line = Open -> Opened(st)
      [] line # Open /\ ~st.headerDone -> [st EXCEPT !.header = Append(@, line)]
      [] line = Shut /\ st.inBlock -> Closed(st)
      [] line.kind = "ssid" /\ st.inBlock -> [st EXCEPT !.cur.ssid = Unquote(line.text)]
      [] line.kind = "psk" /\ st.inBlock -> [st EXCEPT !.cur.psk = Unquote(line.text)]
      [] OTHER -> st

\* parse: the loop after the first n lines, and after the last.
Scanned(f) ==
    LET st[n \in 0 .. Len(f)] == IF n = 0 THEN Start ELSE Scan(st[n - 1], f[n]) IN st

Parsed(f) == Scanned(f)[Len(f)]

\* Mutant: the header is ended by a new line whether or not it has one.
TerminatedTwice(h) == Append(h, Empty)

\* The header as it is written back: joining its lines leaves the last one without
\* its end, so an empty last line is what ends the one before it.
Terminated(h) == IF h # <<>> /\ Last(h) = Empty THEN Front(h) ELSE h

Block(n) == <<Empty, Open, Field("ssid", Quoted(n.ssid)), Field("psk", Quoted(n.psk)), Shut>>

\* write.
Render(header, nets) ==
    Terminated(header) \o FlattenSeq([i \in DOMAIN nets |-> Block(nets[i])])
-----------------------------------------------------------------------------
VARIABLES
    file,   \* the lines of the file
    writes, \* how often it was written
    book    \* what was installed and asked for since, as it was given, and how
            \* often it has been written: the file as it ought to be read

vars == <<file, writes, book>>

Nets(f) == Parsed(f).nets

\* The blocks of a file by their definition: from a line that opens one to the next
\* line that opens or closes one, which closes it, with a name in between.
Delimits(f, i, j) ==
    /\ i < j /\ f[i] = Open /\ f[j] = Shut
    /\ \A k \in i + 1 .. j - 1 : f[k] \notin {Open, Shut}

Value(f, i, j, k) ==
    LET at == {n \in i .. j : f[n].kind = k}
    IN  IF at = {} THEN <<>> ELSE Unquote(f[Max(at)].text)

BlockAt(f, i, j) ==
    [ssid |-> Value(f, i, j, "ssid"), psk |-> Value(f, i, j, "psk"), age |-> 0]

OpensOf(f, j) == {i \in DOMAIN f : Delimits(f, i, j) /\ Value(f, i, j, "ssid") # <<>>}

Blocks(f) ==
    FlattenSeq([j \in DOMAIN f |->
        IF OpensOf(f, j) = {} THEN <<>>
        ELSE <<BlockAt(f, CHOOSE i \in OpensOf(f, j) : TRUE, j)>>])

Init == /\ file \in Installed
        /\ writes = 0
        /\ book = Blocks(file)

\* What a value that was written n times is read as: every quotation mark behind
\* 2^n - 1 backslashes, every backslash 2^n times.
Aged(t, n) ==
    FlattenSeq([i \in DOMAIN t |->
        CASE t[i] = "plain" -> <<"plain">>
          [] t[i] = "quote" -> Append(Times("slash", Doubled(n) - 1), "quote")
          [] t[i] = "slash" -> Times("slash", Doubled(n))])

ReadAs(b) == [ssid |-> Aged(b.ssid, b.age), psk |-> Aged(b.psk, b.age)]

Older(bs) == [i \in DOMAIN bs |-> [bs[i] EXCEPT !.age = @ + 1]]

Write(f, bs) == /\ writes < Writes
                /\ file' = f /\ writes' = writes + 1 /\ book' = Older(bs)

\* Mutant: names are compared as they are in the file, between quotation marks.
KnownQuoted(ns, s) == \E i \in DOMAIN ns : Quoted(ns[i].ssid) = s

Known(ns, s) == \E i \in DOMAIN ns : ns[i].ssid = s

Others(ns, s) == Without(ns, {n \in Range(ns) : n.ssid = s})

\* Add, when it goes ahead; when it refuses, nothing changes.
AddNetwork(s, p) ==
    LET st == Parsed(file) IN
    /\ ~Known(st.nets, s)
    /\ Write(Render(st.header, Append(st.nets, [ssid |-> s, psk |-> p])),
             Append(book, [ssid |-> s, psk |-> p, age |-> 0]))

\* Remove, by the name the file is read to have.
RemoveNetwork(s) ==
    LET st == Parsed(file) IN
    /\ Known(st.nets, s)
    /\ Write(Render(st.header, Others(st.nets, s)),
             Without(book, {b \in Range(book) : ReadAs(b).ssid = s}))

Over == writes = Writes /\ UNCHANGED vars

Next == \/ \E s \in Names, p \in Phrases : AddNetwork(s, p)
        \/ \E i \in DOMAIN Nets(file) : RemoveNetwork(Nets(file)[i].ssid)
        \/ Over

Spec == Init /\ [][Next]_vars
-----------------------------------------------------------------------------
TypeOK ==
    /\ file \in Seq([kind : Kinds, text : Text])
    /\ writes \in 0 .. Writes
    /\ book \in Seq([ssid : Text \ {<<>>}, psk : Text, age : 0 .. writes])
    /\ \A i \in DOMAIN Nets(file) : Nets(file)[i] \in [ssid : Text \ {<<>>}, psk : Text]

\* Whatever the file looked like when it was found, every network is read, in its
\* order, with its own passphrase, and with exactly one layer of escapes for each time
\* the file was written since it came into it; so a value without quotation marks and
\* backslashes is read as it was given, for ever, and every other one is changed by
\* each change to any network (config.go:125-199).
ReadsAsWritten ==
    Nets(file) = [i \in DOMAIN book |-> ReadAs(book[i])]

Meaningful(h) == Without(h, {Empty})

\* The header comes through every rewrite: none of its lines is lost, and the empty
\* line that ends it does not multiply (config.go:166-169, 177-179).
HeaderSettles ==
    [][LET h == Parsed(file).header
           g == Parsed(file').header
       IN  /\ Meaningful(g) = Meaningful(h)
           /\ Len(g) <= IF h # <<>> /\ Last(h) = Empty THEN Len(h) ELSE Len(h) + 1]_vars

\* The file in the cells of WifiDoc: the header if it says anything, and the names.
Doc == INSTANCE WifiDoc WITH Ssid <- Names, Blank <- <<"blank">>, Hdr <- <<>>, InitNets <- <<>>

Cells(f) ==
    (IF Meaningful(Parsed(f).header) = <<>> THEN <<>> ELSE << <<>> >>)
      \o [i \in DOMAIN Nets(f) |-> Nets(f)[i].ssid]

PlainNames(bs) == \A i \in DOMAIN bs : \A c \in DOMAIN bs[i].ssid : bs[i].ssid[c] = "plain"

\* As long as every name is plain, whatever the passphrases, the file changes as
\* WifiDoc says that it does, request by request (config.go:44-86).
CellsSuffice ==
    [][PlainNames(book) /\ PlainNames(book') /\ writes' > writes =>
         \E o \in {"add", "remove"}, s \in Names \cup {b.ssid : b \in Range(book)} :
           LET q == [op |-> o, ssid |-> s] IN
             /\ ~Doc!Invalid(q) /\ ~Doc!Refused(Cells(file), q)
             /\ Cells(file') = Doc!Edited(Cells(file), q)]_vars
===============================================================================
