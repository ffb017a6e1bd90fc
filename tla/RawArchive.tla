------------------------------ MODULE RawArchive ------------------------------
(***************************************************************************)
(* The raw objects behind every source record.  An object is stored under  *)
(* the digest of its content: a put writes a temporary file next to it and *)
(* renames that file over the target, unless the target is there already.  *)
(* The temporary name is a function of the content too, so two processes   *)
(* that put the same content at once write the same temporary file.        *)
(*                                                                         *)
(* The module follows one content.  A file is an inode: opening an         *)
(* existing file truncates it, and a rename moves the name only.           *)
(***************************************************************************)
EXTENDS Integers, FiniteSets

CONSTANTS
    Writer,     \* processes that put the content
    MaxPuts     \* bound on the puts of one process

NoFile == 0

ASSUME RawArchiveAssumption == IsFiniteSet(Writer) /\ MaxPuts \in Nat

VARIABLES
    target,     \* the inode that the object key names
    temporary,  \* the inode that the temporary name names
    inodes,     \* how many inodes were ever created
    whole,      \* the inodes that hold all of the content
    put,        \* what each writer is doing: its step and the file it holds
    puts,       \* how many puts each writer has begun
    overlapped, \* has a put been in progress when another began?
    killed      \* the files whose writer died before it had written them

arVars == <<target, temporary, inodes, whole, put, puts, overlapped, killed>>

Inode == 1..inodes

NoPut == [step |-> "none", file |-> NoFile]

Putting(w) == put[w].step # "none"

Ended(w) == put' = [put EXCEPT ![w] = NoPut]

Begun(w) ==
    /\ ~Putting(w)
    /\ puts[w] < MaxPuts
    /\ puts' = [puts EXCEPT ![w] = @ + 1]
    /\ overlapped' = (overlapped \/ \E u \in Writer : Putting(u))

\* The object is there: its bytes are compared with the digest, and nothing is written.
FindStored(w) ==
    /\ target # NoFile
    /\ Begun(w)
    /\ UNCHANGED <<target, temporary, inodes, whole, put, killed>>

BeginPut(w) ==
    /\ target = NoFile
    /\ Begun(w)
    /\ put' = [put EXCEPT ![w] = [step |-> "absent", file |-> NoFile]]
    /\ UNCHANGED <<target, temporary, inodes, whole, killed>>

\* Mutant: what is left under the temporary name is taken for the content.
OpenLeftover(w) ==
    /\ put[w].step = "absent"
    /\ IF temporary = NoFile
       THEN /\ inodes' = inodes + 1
            /\ temporary' = inodes + 1
            /\ put' = [put EXCEPT ![w] = [step |-> "opened", file |-> inodes + 1]]
       ELSE /\ put' = [put EXCEPT ![w] = [step |-> "written", file |-> temporary]]
            /\ UNCHANGED <<inodes, temporary>>
    /\ UNCHANGED <<target, whole, puts, overlapped, killed>>

OpenTemporary(w) ==
    /\ put[w].step = "absent"
    /\ IF temporary = NoFile
       THEN /\ inodes' = inodes + 1
            /\ temporary' = inodes + 1
            /\ put' = [put EXCEPT ![w] = [step |-> "opened", file |-> inodes + 1]]
            /\ UNCHANGED whole
       ELSE /\ whole' = whole \ {temporary}
            /\ put' = [put EXCEPT ![w] = [step |-> "opened", file |-> temporary]]
            /\ UNCHANGED <<inodes, temporary>>
    /\ UNCHANGED <<target, puts, overlapped, killed>>

WriteContent(w) ==
    /\ put[w].step = "opened"
    /\ whole' = whole \cup {put[w].file}
    /\ put' = [put EXCEPT ![w].step = "written"]
    /\ UNCHANGED <<target, temporary, inodes, puts, overlapped, killed>>

\* Another writer may have renamed the file away, and this put fails.
Rename(w) ==
    /\ put[w].step = "written"
    /\ IF temporary = NoFile THEN UNCHANGED <<target, temporary>>
       ELSE target' = temporary /\ temporary' = NoFile
    /\ Ended(w)
    /\ UNCHANGED <<inodes, whole, puts, overlapped, killed>>

Kill(w) ==
    /\ Putting(w)
    /\ Ended(w)
    /\ killed' = IF put[w].step = "opened" THEN killed \cup {put[w].file} ELSE killed
    /\ UNCHANGED <<target, temporary, inodes, whole, puts, overlapped>>

ArchiveInit ==
    /\ target = NoFile /\ temporary = NoFile /\ inodes = 0 /\ whole = {}
    /\ put = [w \in Writer |-> NoPut]
    /\ puts = [w \in Writer |-> 0]
    /\ overlapped = FALSE
    /\ killed = {}

ArchiveNext ==
    \E w \in Writer :
        \/ FindStored(w) \/ BeginPut(w) \/ OpenTemporary(w)
        \/ WriteContent(w) \/ Rename(w) \/ Kill(w)

ArchiveSpec == ArchiveInit /\ [][ArchiveNext]_arVars

-----------------------------------------------------------------------------
ArchiveTypeOK ==
    /\ target \in Inode \cup {NoFile} /\ temporary \in Inode \cup {NoFile}
    /\ inodes \in Nat /\ whole \subseteq Inode /\ killed \subseteq Inode
    /\ put \in [Writer -> [step: {"none", "absent", "opened", "written"},
                           file: Inode \cup {NoFile}]]
    /\ puts \in [Writer -> 0..MaxPuts]
    /\ overlapped \in BOOLEAN

\* A stored object holds its content, whichever puts die halfway, unless puts of the same
\* content overlapped; then it may be torn only while one of them is still writing the
\* file that another has renamed, or for ever if that one died.
StoredIsWhole ==
    target # NoFile /\ target \notin whole =>
        /\ overlapped
        /\ target \in killed \/ \E w \in Writer : put[w] = [step |-> "opened", file |-> target]
=============================================================================
