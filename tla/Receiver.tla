------------------------------ MODULE Receiver ------------------------------
(***************************************************************************)
(* transfer.Receive: hello, wait for the manifest, decide which files to   *)
(* accept, then per accepted file in ascending id order wait for its       *)
(* file-start, write its chunks to a freshly created file, check size and  *)
(* digest at file-end, and ack; finally wait for done.                     *)
(*                                                                         *)
(* The destination directory is a function from paths to contents.  A      *)
(* candidate path is the sanitized name with suffix "-1", "-2", ...; names *)
(* are sequences so that name <<"a", 1>> is candidate 1 of name <<"a">>.   *)
(***************************************************************************)
EXTENDS Session

CONSTANTS
  MaxAttempts,  \* maxCollisionAttempts
  NoFile,       \* content of a path where no file exists
  NoPath,       \* no destination file
  Before        \* the directory's content when Receive starts

Candidate(name, i) == IF i = 0 THEN name ELSE Append(name, i)

Paths == {Candidate(n, i) : n \in Names, i \in 0..MaxAttempts-1}

ASSUME ReceiverAssumption ==
  /\ MaxAttempts \in Nat \ {0}
  /\ NoFile \notin Content
  /\ NoPath \notin Paths
  /\ Before \in [Paths -> Content \cup {NoFile}]

VARIABLES
  meta,   \* the manifest keyed by id, the empty function before it arrives
  want,   \* accepted ids still to receive
  dest,   \* path of the file being written, removed unless it is verified
  dir,    \* the destination directory
  saved   \* where each verified file is

rcvVars == <<meta, want, dest, dir, saved>>

ReceiverTypeOK ==
  /\ DOMAIN meta \subseteq Nat
  /\ \A id \in DOMAIN meta : meta[id] \in FileMeta
  /\ want \in SUBSET DOMAIN meta
  /\ dest \in Paths \cup {NoPath}
  /\ dir \in [Paths -> Content \cup {NoFile}]
  /\ DOMAIN saved \subseteq DOMAIN meta
  /\ \A id \in DOMAIN saved : saved[id] \in Paths

NoEntries == [id \in {} |-> 0]

ReceiverInit ==
  /\ meta = NoEntries
  /\ want = {}
  /\ dest = NoPath
  /\ dir = Before
  /\ saved = NoEntries

\* Mutant: removes the file of the declared name instead of the one created.
RemoveByName ==
  /\ dest' = NoPath
  /\ dir' = IF dest = NoPath THEN dir ELSE [dir EXCEPT ![<<dest[1]>>] = NoFile]

\* Mutant: a failure removes everything the transfer has written.
RemoveEverything == dest' = NoPath /\ dir' = Before

\* The deferred close and remove of a file that was not verified.
RemovePartial ==
  /\ dest' = NoPath
  /\ dir' = IF dest = NoPath THEN dir ELSE [dir EXCEPT ![dest] = NoFile]

SavedIds == DOMAIN saved

KeepFiles == UNCHANGED <<dest, dir, saved>>

-----------------------------------------------------------------------------
\* MkdirAll fails: Receive returns before it opens a session.
NoDestination ==
  /\ At("rcv", "init")
  /\ pc' = [pc EXCEPT !["rcv"] = "returned"]
  /\ err' = [err EXCEPT !["rcv"] = "local"]
  /\ EmitFinal("rcv", "error")
  /\ NoInput
  /\ UNCHANGED <<linkVars, rcvVars, wire, signaled>>

TakeManifest ==
  /\ Take("rcv", {"manifest"})
  /\ LET files == NextMsg("rcv").files IN
       IF ValidManifest(files)
       THEN /\ meta' = ById(files)
            /\ GoTo("rcv", "decide")
            /\ UNCHANGED <<wire, signaled>>
       ELSE ProtocolError("rcv") /\ UNCHANGED meta

WaitManifest ==
  /\ At("rcv", "waitManifest")
  /\ \/ TakeManifest
     \/ WaitOther("rcv", {"manifest"}) /\ UNCHANGED meta
  /\ NoEvent /\ KeepFiles
  /\ UNCHANGED <<linkVars, want>>

\* The decide callback answers: a failure or an invalid id list, no file,
\* or some files.  An accept without ids stands for the whole manifest.
Decide ==
  /\ At("rcv", "decide")
  /\ \/ LastWord("rcv", Reject, "decide") /\ UNCHANGED want
     \/ LastWord("rcv", Reject, "declined") /\ UNCHANGED want
     \/ \E ids \in SUBSET DOMAIN meta :
          /\ ids # {}
          /\ Control("rcv", Accept(IF ids = DOMAIN meta THEN {} ELSE ids), "waitStart")
          /\ want' = IF CanSend("rcv") THEN ids ELSE want
          /\ UNCHANGED signaled
  /\ NoInput /\ NoEvent /\ KeepFiles
  /\ UNCHANGED <<linkVars, meta>>

\* Mutant: the declared name is taken, whether or not a file has it.
FreshAlways(name, i) == i = 0

\* createDest takes the first candidate no file has; it fails when all are
\* taken or the open itself fails.
Fresh(name, i) ==
  /\ dir[Candidate(name, i)] = NoFile
  /\ \A j \in 0..i-1 : dir[Candidate(name, j)] # NoFile

CreateDest(id) ==
  \/ \E i \in 0..MaxAttempts-1 :
       /\ Fresh(meta[id].name, i)
       /\ dest' = Candidate(meta[id].name, i)
       /\ dir' = [dir EXCEPT ![Candidate(meta[id].name, i)] = <<>>]
       /\ Emit("rcv", <<"start", id>>)
       /\ GoTo("rcv", "chunks")
  \/ FailWith("rcv", "local") /\ NoEvent /\ UNCHANGED <<dest, dir>>

TakeFileStart(id) ==
  /\ Take("rcv", {"file-start"})
  /\ IF NextMsg("rcv").id = id
     THEN CreateDest(id) /\ UNCHANGED <<wire, signaled>>
     ELSE ProtocolError("rcv") /\ NoEvent /\ UNCHANGED <<dest, dir>>

WaitFileStart ==
  /\ At("rcv", "waitStart")
  /\ \/ \E id \in want : IsNext(id, want) /\ TakeFileStart(id)
     \/ /\ WaitOther("rcv", {"file-start"})
        /\ NoEvent /\ UNCHANGED <<dest, dir>>
  /\ UNCHANGED <<linkVars, meta, want, saved>>

\* Mutant: a chunk that completes the declared size is too long.
TakeChunkOffByOne(id) ==
  /\ Take("rcv", {"chunk"})
  /\ LET data == NextMsg("rcv").data IN
       IF Len(dir[dest]) + Len(data) >= meta[id].size
       THEN ProtocolError("rcv") /\ RemovePartial
       ELSE /\ dir' = [dir EXCEPT ![dest] = @ \o data]
            /\ UNCHANGED <<pc, err, dest, wire, signaled>>
  /\ NoEvent /\ UNCHANGED <<want, saved>>

\* A chunk is written unless it would exceed the declared size; the write
\* may fail.
TakeChunk(id) ==
  /\ Take("rcv", {"chunk"})
  /\ LET data == NextMsg("rcv").data IN
       IF Len(dir[dest]) + Len(data) > meta[id].size
       THEN ProtocolError("rcv") /\ RemovePartial
       ELSE /\ \/ dir' = [dir EXCEPT ![dest] = @ \o data] /\ UNCHANGED <<pc, err, dest>>
               \/ FailWith("rcv", "local") /\ RemovePartial
            /\ UNCHANGED <<wire, signaled>>
  /\ NoEvent /\ UNCHANGED <<want, saved>>

\* Mutant: the file is reported done before its ack is sent.
KeepTellsFirst(id) ==
  /\ saved' = [i \in DOMAIN saved \cup {id} |-> IF i = id THEN dest ELSE saved[i]]
  /\ dest' = NoPath
  /\ Emit("rcv", <<"ok", id>>)
  /\ Control("rcv", FileAck(id, "ok"),
             IF want = {id} THEN "waitDone" ELSE "waitStart")
  /\ want' = IF CanSend("rcv") THEN want \ {id} ELSE want
  /\ UNCHANGED <<dir, signaled>>

\* The file is verified and kept, then acknowledged.
Keep(id) ==
  /\ saved' = [i \in DOMAIN saved \cup {id} |-> IF i = id THEN dest ELSE saved[i]]
  /\ dest' = NoPath
  /\ Control("rcv", FileAck(id, "ok"),
             IF want = {id} THEN "waitDone" ELSE "waitStart")
  /\ IF CanSend("rcv")
     THEN Emit("rcv", <<"ok", id>>) /\ want' = want \ {id}
     ELSE NoEvent /\ UNCHANGED want
  /\ UNCHANGED <<dir, signaled>>

\* The digest differs: the ack says so, best effort, and the file goes.
Mismatch(id) ==
  /\ IF CanSend("rcv") THEN Post("rcv", FileAck(id, "hash-mismatch")) ELSE UNCHANGED wire
  /\ Emit("rcv", <<"bad", id>>)
  /\ FailWith("rcv", "hash-mismatch")
  /\ RemovePartial
  /\ UNCHANGED <<signaled, want, saved>>

\* Mutant: the ack goes out before the file is closed, which may fail.
TakeFileEndAcksFirst(id) ==
  /\ Take("rcv", {"file-end"})
  /\ NextMsg("rcv").id = id /\ NextMsg("rcv").sha256 = dir[dest]
  /\ \/ Keep(id)
     \/ /\ IF CanSend("rcv") THEN Post("rcv", FileAck(id, "ok")) ELSE UNCHANGED wire
        /\ FailWith("rcv", "local") /\ RemovePartial
        /\ NoEvent /\ UNCHANGED <<signaled, want, saved>>

\* Mutant: a file-end counts for the current file whatever id it names.
TakeFileEndAnyId(id) ==
  /\ Take("rcv", {"file-end"})
  /\ NextMsg("rcv").sha256 = dir[dest] /\ Len(dir[dest]) = meta[id].size
  /\ Keep(id)

TakeFileEnd(id) ==
  /\ Take("rcv", {"file-end"})
  /\ LET end == NextMsg("rcv") IN
       \/ /\ end.id # id \/ Len(dir[dest]) # meta[id].size
          /\ ProtocolError("rcv") /\ RemovePartial
          /\ NoEvent /\ UNCHANGED <<want, saved>>
       \/ /\ end.id = id /\ Len(dir[dest]) = meta[id].size
          /\ end.sha256 # dir[dest]
          /\ Mismatch(id)
       \/ /\ end.id = id /\ Len(dir[dest]) = meta[id].size
          /\ end.sha256 = dir[dest]
          /\ \/ Keep(id)
             \/ /\ FailWith("rcv", "local")   \* Close fails
                /\ RemovePartial
                /\ NoEvent /\ UNCHANGED <<wire, signaled, want, saved>>

\* Any other outcome of the wait; one that ends the session removes the
\* partial file.
NoChunk ==
  /\ WaitOther("rcv", {"chunk", "file-end"})
  /\ IF At("rcv", "chunks")' THEN UNCHANGED <<dest, dir>> ELSE RemovePartial
  /\ NoEvent /\ UNCHANGED <<want, saved>>

ReceiveChunks ==
  /\ At("rcv", "chunks")
  /\ \/ \E id \in want : IsNext(id, want) /\ (TakeChunk(id) \/ TakeFileEnd(id))
     \/ NoChunk
  /\ UNCHANGED <<linkVars, meta>>

\* After the last file: done ends the session, Receive returns nil.
WaitDone ==
  /\ At("rcv", "waitDone")
  /\ \/ Take("rcv", {"done"}) /\ Succeed("rcv") /\ UNCHANGED <<wire, signaled>>
     \/ WaitOther("rcv", {"done"}) /\ NoEvent /\ UNCHANGED pump
  /\ UNCHANGED <<rcvVars, chan, closed, ctx>>

ReceiverNext ==
  \/ BothSides("rcv") /\ UNCHANGED rcvVars
  \/ NoDestination \/ WaitManifest \/ Decide
  \/ WaitFileStart \/ ReceiveChunks \/ WaitDone
=============================================================================
