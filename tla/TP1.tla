-------------------------------- MODULE TP1 --------------------------------
(***************************************************************************)
(* TP/1, the transfer protocol spoken on the "jsi" data channel: its       *)
(* messages and the manifest rules (internal/protocol/protocol.go).  The   *)
(* data channel carries text messages (control) and binary ones (file      *)
(* bytes); both are records here, tagged by t.                             *)
(*                                                                         *)
(* File bytes are units <<file, k>>: unit k of the file the sender calls   *)
(* `file`.  A digest is the sequence of units hashed, i.e. SHA-256 is      *)
(* taken to be injective.                                                  *)
(***************************************************************************)
EXTENDS Integers, Sequences

CONSTANTS
  MaxFiles,     \* most entries a manifest may hold
  MaxFileSize,  \* largest declared size
  Names,        \* the names that survive SanitizeName
  BadName       \* stands for the names SanitizeName refuses

ASSUME LimitsAssumption ==
  /\ MaxFiles \in Nat \ {0}
  /\ MaxFileSize \in Nat
  /\ BadName \notin Names

Version == 1

Unit    == Int \X Nat
Content == Seq(Unit)

\* The first n units of a file, and the units from .. from + n - 1 of it.
Slice(file, from, n) == [k \in 1..n |-> <<file, from + k>>]
FileData(file, n)    == Slice(file, 0, n)

-----------------------------------------------------------------------------
(* Messages.                                                               *)

FileMeta == [id : Int, name : Names \cup {BadName}, size : Int]

Hello(v)            == [t |-> "hello", v |-> v]
Manifest(files)     == [t |-> "manifest", files |-> files]
Accept(ids)         == [t |-> "accept", ids |-> ids]
Reject              == [t |-> "reject"]
FileStart(id)       == [t |-> "file-start", id |-> id]
Chunk(data)         == [t |-> "chunk", data |-> data]
FileEnd(id, digest) == [t |-> "file-end", id |-> id, sha256 |-> digest]
FileAck(id, status) == [t |-> "file-ack", id |-> id, status |-> status]
Done                == [t |-> "done"]
Cancel              == [t |-> "cancel"]
ErrorMsg(code)      == [t |-> "error", code |-> code]
Unknown             == [t |-> "unknown"]    \* a type TP/1 does not name
Malformed           == [t |-> "malformed"]  \* text Unmarshal refuses

Message ==
  [t : {"hello"}, v : Nat]
    \cup [t : {"manifest"}, files : Seq(FileMeta)]
    \cup [t : {"accept"}, ids : SUBSET Int]
    \cup [t : {"file-start"}, id : Int]
    \cup [t : {"chunk"}, data : Content]
    \cup [t : {"file-end"}, id : Int, sha256 : Content]
    \cup [t : {"file-ack"}, id : Int, status : {"ok", "hash-mismatch", "other"}]
    \cup [t : {"error"}, code : {"protocol", "version"}]
    \cup [t : {"reject", "done", "cancel", "unknown", "malformed"}]

-----------------------------------------------------------------------------
(* Manifest and acceptance rules.                                          *)

\* protocol.Validate: the declared size is in range.
Validate(meta) == meta.size \in 0..MaxFileSize

\* validateManifest: at most MaxFiles entries, sizes in range, ids
\* non-negative and unique, names SanitizeName can make safe.
ValidManifest(files) ==
  /\ Len(files) <= MaxFiles
  /\ \A i \in 1..Len(files) :
       /\ Validate(files[i])
       /\ files[i].id >= 0
       /\ files[i].name \in Names
       /\ \A j \in 1..Len(files) : files[j].id = files[i].id => i = j

\* byID: the manifest entries keyed by file id.
ById(files) ==
  [id \in {files[i].id : i \in 1..Len(files)} |->
     files[CHOOSE i \in 1..Len(files) : files[i].id = id]]

\* resolveAccept for a manifest of n files: an empty list accepts them all.
ValidAccept(ids, n) == ids \subseteq 0..n-1

\* Mutant: an accept without ids accepts nothing.
LiteralAccept(ids, n) == ids

ResolveAccept(ids, n) == IF ids = {} THEN 0..n-1 ELSE ids

\* Files go in ascending id order: the next one of a set still to do.
IsNext(id, todo) == id \in todo /\ \A j \in todo : id <= j
=============================================================================
