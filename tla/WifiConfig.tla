----------------------------- MODULE WifiConfig ------------------------------
(***************************************************************************)
(* The file-level behaviour of internal/wifi as pispot-authd runs it: one  *)
(* goroutine per accepted connection (socket.Serve), each doing at most    *)
(* one wifi_list, wifi_add or wifi_remove, with no lock between them.      *)
(* Every system call that another goroutine can come between is a step:    *)
(* ReadFile, the open of WriteFile (O_CREATE|O_TRUNC on the fixed name     *)
(* configPath+".tmp"), its write, Rename, and the Remove after a failed    *)
(* Rename.  The file system has inodes: an open file stays the same inode  *)
(* when its name is renamed or removed, which is what lets one writer      *)
(* truncate the file another one has just published.                       *)
(***************************************************************************)
EXTENDS WifiDoc

CONSTANTS
    Conn,       \* the connections the daemon accepts, one request each
    Inode,      \* inodes of the directory's file system
    NoInode,    \* a name that does not exist, a handler with no open file
    Serial,     \* TRUE: clients wait for a reply before the next request
    Faults      \* TRUE: system calls may fail and the daemon may die

ASSUME FsAssumption == /\ NoInode \notin Inode
                       /\ Serial \in BOOLEAN
                       /\ Faults \in BOOLEAN

VARIABLES
    dir,        \* the inode each of the two names points to
    data,       \* the contents of each inode
    pc,         \* where each connection's goroutine is
    req,        \* the request it decoded
    buf,        \* what it is about to write
    fd,         \* the inode it has open for writing
    answer      \* the reply it computed

vars == <<dir, data, pc, req, buf, fd, answer>>

Name == {"config", "tmp"}
InFlight == {"read", "open", "write", "rename", "unlink", "reply"}
Pc == {"new", "done", "gone"} \cup InFlight

Init ==
    /\ \E i \in Inode :
         /\ dir = [n \in Name |-> IF n = "config" THEN i ELSE NoInode]
         /\ data = [j \in Inode |-> IF j = i THEN InitFile ELSE <<>>]
    /\ pc = [c \in Conn |-> "new"]
    /\ req = [c \in Conn |-> [op |-> "list", ssid |-> Blank]]
    /\ buf = [c \in Conn |-> <<>>]
    /\ fd = [c \in Conn |-> NoInode]
    /\ answer = [c \in Conn |-> NoAnswer]

Config == data[dir["config"]]

Goto(c, label) == pc' = [pc EXCEPT ![c] = label]

Reply(c, a) ==
    /\ Goto(c, "reply")
    /\ answer' = [answer EXCEPT ![c] = a]

-----------------------------------------------------------------------------
\* The accept loop starts a goroutine, which decodes a request.
Accept(c, q) ==
    /\ pc[c] = "new"
    /\ Serial => \A d \in Conn : pc[d] \notin InFlight
    /\ Goto(c, "read")
    /\ req' = [req EXCEPT ![c] = q]
    /\ UNCHANGED <<dir, data, buf, fd, answer>>

\* Add validates the SSID and the passphrase before it reads.
Reject(c) ==
    /\ pc[c] = "read"
    /\ Invalid(req[c])
    /\ Reply(c, Declined)
    /\ UNCHANGED <<dir, data, req, buf, fd>>

\* List, and the ReadFile of Add and Remove when they answer from it alone.
ReadOnly(c) ==
    /\ pc[c] = "read"
    /\ ~Invalid(req[c])
    /\ \/ req[c].op = "list" /\ Reply(c, Listed(Nets(Config)))
       \/ Refused(Config, req[c]) /\ Reply(c, Declined)
    /\ UNCHANGED <<dir, data, req, buf, fd>>

\* The ReadFile of Add and Remove, and the new contents made of it in memory.
ReadEdit(c) ==
    /\ pc[c] = "read"
    /\ req[c].op # "list"
    /\ ~Invalid(req[c])
    /\ ~Refused(Config, req[c])
    /\ buf' = [buf EXCEPT ![c] = Edited(Config, req[c])]
    /\ Goto(c, "open")
    /\ UNCHANGED <<dir, data, req, fd, answer>>

\* Mutant: a file that cannot be read is taken for an empty one.
ReadsAsEmpty(c) ==
    /\ Faults
    /\ pc[c] = "read"
    /\ req[c].op = "add" /\ ~Invalid(req[c])
    /\ buf' = [buf EXCEPT ![c] = Edited(<<>>, req[c])]
    /\ Goto(c, "open")
    /\ UNCHANGED <<dir, data, req, fd, answer>>

\* The ReadFile fails.
ReadFails(c) ==
    /\ Faults
    /\ pc[c] = "read"
    /\ ~Invalid(req[c])
    /\ Reply(c, IOError)
    /\ UNCHANGED <<dir, data, req, buf, fd>>

\* Inodes that have a name or are open.
InUse == {dir[n] : n \in Name} \cup {fd[c] : c \in Conn}

\* Mutant: the temporary is opened without O_TRUNC.
OpenTmpKeeping(c) ==
    /\ pc[c] = "open"
    /\ \E i \in Inode :
         /\ IF dir["tmp"] = NoInode THEN i \notin InUse ELSE i = dir["tmp"]
         /\ dir' = [dir EXCEPT !["tmp"] = i]
         /\ fd' = [fd EXCEPT ![c] = i]
    /\ Goto(c, "write")
    /\ UNCHANGED <<data, req, buf, answer>>

\* The open of WriteFile: the file named tmp, created if there is none, emptied.
OpenTmp(c) ==
    /\ pc[c] = "open"
    /\ \E i \in Inode :
         /\ IF dir["tmp"] = NoInode THEN i \notin InUse ELSE i = dir["tmp"]
         /\ dir' = [dir EXCEPT !["tmp"] = i]
         /\ data' = [data EXCEPT ![i] = <<>>]
         /\ fd' = [fd EXCEPT ![c] = i]
    /\ Goto(c, "write")
    /\ UNCHANGED <<req, buf, answer>>

OpenFails(c) ==
    /\ Faults
    /\ pc[c] = "open"
    /\ Reply(c, IOError)
    /\ UNCHANGED <<dir, data, req, buf, fd>>

(***************************************************************************)
(* A write at offset 0: the bytes the file holds beyond it stay.  How long *)
(* the lines of a cell are is left open, so the write may end anywhere in  *)
(* what is there.  A block it cuts is no network any more (its opening     *)
(* line is gone, and parse passes over the rest), and the header it cuts   *)
(* is not at the start: what remains is the last few blocks, if any.       *)
(***************************************************************************)
Remains(old) ==
    {SubSeq(Nets(old), k, Len(Nets(old))) : k \in 1 .. Len(Nets(old)) + 1}

\* What a write of all of new leaves.
Overlaid(new, old) ==
    IF old = <<>> THEN {new}
    ELSE IF new = <<>> THEN {old}
    ELSE {new \o rest : rest \in Remains(old)}

\* A block that begins with new text and ends with old: with any name.
Mixed(old) == IF old = <<>> THEN {} ELSE {<<s>> : s \in Ssid}

\* What a write that stops in the middle of new leaves.
Torn(new, old) ==
    Overlaid(new, old) \cup {old} \cup
      {SubSeq(new, 1, n) \o cut \o rest :
         n \in 0 .. Len(new), cut \in {<<>>} \cup Mixed(old), rest \in Remains(old)}

\* The file is closed and the contents made for it are not used again.
Close(c) ==
    /\ fd' = [fd EXCEPT ![c] = NoInode]
    /\ buf' = [buf EXCEPT ![c] = <<>>]

\* The write and the close of WriteFile.
WriteTmp(c) ==
    /\ pc[c] = "write"
    /\ \E f \in Overlaid(buf[c], data[fd[c]]) : data' = [data EXCEPT ![fd[c]] = f]
    /\ Close(c)
    /\ Goto(c, "rename")
    /\ UNCHANGED <<dir, req, answer>>

\* A full disk: some of the contents is written, and the temporary is left.
WriteFails(c) ==
    /\ Faults
    /\ pc[c] = "write"
    /\ \E f \in Torn(buf[c], data[fd[c]]) : data' = [data EXCEPT ![fd[c]] = f]
    /\ Close(c)
    /\ Reply(c, IOError)
    /\ UNCHANGED <<dir, req>>

\* Rename succeeds whenever the name tmp exists, whoever created it.  The file
\* it replaces loses its name: what it held can be read no more (os.ReadFile opens
\* and reads; a reader that had it open is one whose ReadFile came before).
Rename(c) ==
    /\ pc[c] = "rename"
    /\ dir["tmp"] # NoInode
    /\ dir' = [n \in Name |-> IF n = "config" THEN dir["tmp"] ELSE NoInode]
    /\ data' = [data EXCEPT ![dir["config"]] = <<>>]
    /\ Reply(c, Done)
    /\ UNCHANGED <<req, buf, fd>>

\* Mutant: the error of Rename is dropped.
RenameUnchecked(c) ==
    /\ pc[c] = "rename"
    /\ Faults \/ dir["tmp"] = NoInode
    /\ Reply(c, Done)
    /\ UNCHANGED <<dir, data, req, buf, fd>>

RenameFails(c) ==
    /\ pc[c] = "rename"
    /\ Faults \/ dir["tmp"] = NoInode
    /\ Goto(c, "unlink")
    /\ UNCHANGED <<dir, data, req, buf, fd, answer>>

\* Mutant: write returns the result of Remove, not of Rename.
UnlinkQuietly(c) ==
    /\ pc[c] = "unlink"
    /\ dir' = [dir EXCEPT !["tmp"] = NoInode]
    /\ Reply(c, Done)
    /\ UNCHANGED <<data, req, buf, fd>>

\* Mutant: what is removed after a failed Rename is its target.
UnlinkTarget(c) ==
    /\ pc[c] = "unlink"
    /\ dir' = [dir EXCEPT !["config"] = NoInode]
    /\ Reply(c, IOError)
    /\ UNCHANGED <<data, req, buf, fd>>

\* os.Remove(tmp) after a failed Rename, whosever file has that name by now.
Unlink(c) ==
    /\ pc[c] = "unlink"
    /\ dir' = [dir EXCEPT !["tmp"] = NoInode]
    /\ Reply(c, IOError)
    /\ UNCHANGED <<data, req, buf, fd>>

\* writeResponse, then the connection is closed.
Respond(c) ==
    /\ pc[c] = "reply"
    /\ Goto(c, "done")
    /\ UNCHANGED <<dir, data, req, buf, fd, answer>>

(***************************************************************************)
(* The daemon is killed, or returns from Serve on SIGTERM without waiting  *)
(* for its handlers, and is started again.  What the system calls did      *)
(* stays; goroutines and their open files are gone.                        *)
(***************************************************************************)
Crash ==
    /\ Faults
    /\ \E c \in Conn : pc[c] \in InFlight
    /\ pc' = [c \in Conn |-> IF pc[c] \in InFlight THEN "gone" ELSE pc[c]]
    /\ fd' = [c \in Conn |-> NoInode]
    /\ buf' = [c \in Conn |-> <<>>]
    /\ UNCHANGED <<dir, data, req, answer>>

\* Every connection of the instance has been served.
Idle == (\A c \in Conn : pc[c] \in {"done", "gone"}) /\ UNCHANGED vars

Step(c) ==
    \/ Reject(c) \/ ReadOnly(c) \/ ReadEdit(c) \/ ReadFails(c)
    \/ OpenTmp(c) \/ OpenFails(c) \/ WriteTmp(c) \/ WriteFails(c)
    \/ Rename(c) \/ RenameFails(c) \/ Unlink(c) \/ Respond(c)

Next ==
    \/ \E c \in Conn, q \in Request : Accept(c, q)
    \/ \E c \in Conn : Step(c)
    \/ Crash
    \/ Idle

Spec == Init /\ [][Next]_vars

-----------------------------------------------------------------------------
(***************************************************************************)
(* Properties.                                                             *)
(***************************************************************************)
Answer == [status : {"none", "ok", "refused", "ioerror"}, nets : Seq(Ssid)]

\* Types; Seq(Cell) also says that no Blank and nothing unparsed reaches a file.
TypeOK ==
    /\ dir \in [Name -> Inode \cup {NoInode}]
    /\ dir["config"] \in Inode
    /\ data \in [Inode -> Seq(Cell)]
    /\ pc \in [Conn -> Pc]
    /\ req \in [Conn -> Request]
    /\ buf \in [Conn -> Seq(Cell)]
    /\ fd \in [Conn -> Inode \cup {NoInode}]
    /\ answer \in [Conn -> Answer]

Asked(op, s) == {c \in Conn : pc[c] # "new" /\ req[c] = [op |-> op, ssid |-> s]}

\* However requests interleave, the published name resolves, and to a file that
\* no later open of the temporary name can truncate: the two names never share
\* an inode (config.go:182-189 renames, never links or writes in place).
ConfigAlone == dir["config"] # NoInode /\ dir["config"] # dir["tmp"]

\* However requests interleave and whenever the daemon dies, a network in the
\* file was there from the start or was asked for by a wifi_add: overlaid writes
\* lose and repeat blocks but make none up (config.go:34-60).  Only a write that
\* failed can, when it stops inside a block of what another writer has written.
OnlyRequested ==
    (\A c \in Conn : answer[c].status # "ioerror") =>
        \A s \in Range(Nets(Config)) :
            s \in Range(InitNets) \/ \E c \in Asked("add", s) : s # Blank

\* The temporary outlives the requests only when one of them died or could not
\* write: otherwise every opener ends in a Rename or a Remove that takes the
\* name away, its own or another's (config.go:183-189).
NoStrayTemp ==
    dir["tmp"] # NoInode =>
        \E c \in Conn : \/ pc[c] \in {"write", "rename", "unlink", "gone"}
                        \/ answer[c].status = "ioerror"

\* A network that a wifi_add was told is saved, and no wifi_remove names, is in
\* the file (config.go:32 "Add appends a new network to the config file").
AddAppends ==
    \A c \in Conn :
        ( /\ pc[c] \in {"reply", "done"}
          /\ req[c].op = "add" /\ answer[c].status = "ok"
          /\ Asked("remove", req[c].ssid) = {} )
        => req[c].ssid \in Range(Nets(Config))

\* When adds are all that was asked for and all are answered with ok, their
\* networks are in the file (config.go:32 "Add appends a new network to the
\* config file").
OkAddsSaved ==
    (\A c \in Conn : pc[c] = "done" /\ req[c].op = "add" /\ answer[c] = Done) =>
        \A c \in Conn : req[c].ssid \in Range(Nets(Config))

\* A network the file held at the start, and no wifi_remove names, is there
\* whenever no request is running (config.go:32 "Add appends a new network to the
\* config file", config.go:62 "Remove deletes the network with the given SSID").
OthersSurvive ==
    (\A c \in Conn : pc[c] \notin InFlight) =>
        \A s \in Range(InitNets) :
            Asked("remove", s) = {} => s \in Range(Nets(Config))

\* No SSID has two blocks (config.go:32-33 "Returns an error if a network with
\* the same SSID already exists"); Remove would take both.
NoDuplicates ==
    \A i, j \in DOMAIN Nets(Config) :
        Nets(Config)[i] = Nets(Config)[j] => i = j

-----------------------------------------------------------------------------
(***************************************************************************)
(* One request at a time, the file is the atomic store of WifiStore, across *)
(* failing system calls and crashes: a request takes effect at its Rename.  *)
(***************************************************************************)
PhaseOf(label) ==
    CASE label \in {"new", "done", "gone"} -> label
      [] label = "reply" -> "answered"
      [] OTHER -> "open"

Store == INSTANCE WifiStore
           WITH store <- Config,
                phase <- [c \in Conn |-> PhaseOf(pc[c])]

\* Every serial behaviour of the files is a behaviour of the atomic store.
ImplementsStore == Store!StoreSpec
=============================================================================
