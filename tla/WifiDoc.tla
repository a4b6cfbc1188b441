------------------------------- MODULE WifiDoc -------------------------------
(***************************************************************************)
(* The contents of wpa_supplicant-wlan1.conf as internal/wifi reads and    *)
(* rewrites them: what parse takes from a file, what Add and Remove make   *)
(* of it, and what write renders.  Pure data, shared by the abstract store *)
(* (WifiStore) and by the file-level model (WifiConfig).                   *)
(*                                                                         *)
(* A file is a sequence of cells: at most one header cell, first, and one  *)
(* cell per network block.  A block is named by its SSID; the passphrase   *)
(* follows the SSID everywhere in this package and is left out.            *)
(***************************************************************************)
EXTENDS Sequences, Naturals, Functions

CONSTANTS
    Ssid,      \* the SSIDs a request may name
    Blank,     \* an SSID or passphrase that Add's validation turns down
    Hdr,       \* the lines before the first network block
    InitNets   \* the networks the installation wrote

ASSUME DocAssumption == /\ Hdr \notin Ssid
                        /\ Blank \notin Ssid
                        /\ Blank # Hdr
                        /\ InitNets \in Seq(Ssid)

Cell == Ssid \cup {Hdr}

InitFile == <<Hdr>> \o InitNets

(***************************************************************************)
(* The requests of the wifi_* ops (Reload has its own model, WanControl).  *)
(* A Blank add stands for every pair that validation refuses.              *)
(***************************************************************************)
Request == [op : {"add", "remove"}, ssid : Ssid \cup {Blank}]
             \cup [op : {"list"}, ssid : {Blank}]

(***************************************************************************)
(* parse: the header is what precedes the first block, the networks are    *)
(* the rest.  A file that begins with a block has an empty header.         *)
(***************************************************************************)
HasHeader(file) == file # <<>> /\ file[1] = Hdr
Nets(file) == IF HasHeader(file) THEN Tail(file) ELSE file

\* write: the header that was read, then the networks.
Render(header, nets) == IF header THEN <<Hdr>> \o nets ELSE nets

\* Remove's loop: the networks among the first i that it keeps.
Kept(nets, s) ==
    LET updated[i \in 0 .. Len(nets)] ==
          IF i = 0 THEN <<>>
          ELSE IF nets[i] = s THEN updated[i - 1]
          ELSE Append(updated[i - 1], nets[i])
    IN  updated

\* Remove keeps every network but those with the SSID.
Without(nets, s) == Kept(nets, s)[Len(nets)]

\* Mutant: Add without its validation.
NotValidated(q) == FALSE

\* Add's validation of its arguments, before anything is read.
Invalid(q) == q.op = "add" /\ q.ssid = Blank

\* Mutant: Add without its search for the SSID.
RefusedUnseen(file, q) == q.op = "remove" /\ q.ssid \notin Range(Nets(file))

\* What Add and Remove answer, without writing, to what they read.
Refused(file, q) ==
    \/ q.op = "add"    /\ q.ssid \in Range(Nets(file))
    \/ q.op = "remove" /\ q.ssid \notin Range(Nets(file))

\* The file Add or Remove writes, from the file it read.
Edited(file, q) ==
    Render(HasHeader(file),
           IF q.op = "add" THEN Append(Nets(file), q.ssid)
                           ELSE Without(Nets(file), q.ssid))

(***************************************************************************)
(* The reply of a handler: Response{Ok, Error, Networks}.                  *)
(***************************************************************************)
NoAnswer   == [status |-> "none",    nets |-> <<>>]
Done       == [status |-> "ok",      nets |-> <<>>]
Listed(ns) == [status |-> "ok",      nets |-> ns]
Declined   == [status |-> "refused", nets |-> <<>>]
IOError    == [status |-> "ioerror", nets |-> <<>>]
=============================================================================
