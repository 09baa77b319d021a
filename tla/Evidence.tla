------------------------------ MODULE Evidence ------------------------------
(***************************************************************************)
(* Staging evidence (rvs/artifacts/evidence_commands.py): files are hashed,*)
(* declared in an intent, uploaded one by one and completed, while other   *)
(* programs may edit them; then the command waits for the intent.  A file  *)
(* is the number of edits it has had.  Nothing is assumed of the storage   *)
(* service: it keeps the bytes it is sent.                                 *)
(***************************************************************************)
EXTENDS Naturals, FiniteSets

CONSTANTS
    File,           \* evidence files, one per entry of the intent
    MaxEdits,       \* bound: edits in all
    WaitSeconds,    \* bound: --wait-timeout
    NoFile          \* nothing hashed, sent or in hand

ASSUME EvidenceAssumption == MaxEdits \in Nat /\ WaitSeconds \in Nat

VARIABLES
    disk,       \* per file: its current content
    evidence    \* where the command is, what it knows and what the service has

evidenceVars == <<disk, evidence>>

Unknown == [f \in File |-> NoFile]
NoEvidence == [at |-> "idle", file |-> NoFile, opened |-> NoFile, hashed |-> Unknown,
               stored |-> Unknown, completed |-> {}, left |-> 0, raced |-> {}]

EvidenceInit == disk = [f \in File |-> 0] /\ evidence = NoEvidence

EvidenceBegin ==
    /\ evidence = NoEvidence
    /\ evidence' = [NoEvidence EXCEPT !.at = "hash"]
    /\ UNCHANGED disk

Edit(f) ==
    /\ evidence.at \notin {"idle", "done", "failed"}
    /\ disk[f] < MaxEdits
    /\ disk' = [disk EXCEPT ![f] = @ + 1]
    /\ evidence' = [evidence EXCEPT !.raced = @ \cup (IF evidence.at = "stream"
                                                      THEN {evidence.file} \cap {f} ELSE {})]

\* Every step may end the command: an unreadable file, a refused or a lost request.
EvidenceFails ==
    /\ evidence.at \notin {"idle", "done", "failed"}
    /\ evidence' = [evidence EXCEPT !.at = "failed", !.file = NoFile, !.opened = NoFile]
    /\ UNCHANGED disk

\* _hash_file: the file is examined before it is read ...
OpenToHash(f) ==
    /\ evidence.at = "hash" /\ evidence.file = NoFile /\ evidence.hashed[f] = NoFile
    /\ evidence' = [evidence EXCEPT !.file = f, !.opened = disk[f]]
    /\ UNCHANGED disk

\* ... and after it, and an edit in between is an error.
Hash ==
    /\ evidence.at = "hash" /\ evidence.file # NoFile
    /\ disk[evidence.file] = evidence.opened
    /\ evidence' = [evidence EXCEPT !.file = NoFile, !.opened = NoFile,
                       !.hashed[evidence.file] = disk[evidence.file]]
    /\ UNCHANGED disk

\* The intent is created and its uploads are prepared.
Prepare ==
    /\ evidence.at = "hash"
    /\ \A f \in File : evidence.hashed[f] # NoFile
    /\ evidence' = [evidence EXCEPT !.at = "check"]
    /\ UNCHANGED disk

\* Mutant: only checks that the file is still there.
RequireReadable(f) ==
    /\ evidence.at = "check" /\ f \notin evidence.completed
    /\ evidence' = [evidence EXCEPT !.at = "stream", !.file = f]
    /\ UNCHANGED disk

\* The next upload, in the service's order: the file must be the one that was hashed.
RequireUnchanged(f) ==
    /\ evidence.at = "check" /\ f \notin evidence.completed
    /\ disk[f] = evidence.hashed[f]
    /\ evidence' = [evidence EXCEPT !.at = "stream", !.file = f]
    /\ UNCHANGED disk

\* The file is opened again and streamed to the storage service.
Stream ==
    /\ evidence.at = "stream"
    /\ evidence' = [evidence EXCEPT !.at = "complete",
                       !.stored[evidence.file] = disk[evidence.file]]
    /\ UNCHANGED disk

\* The upload is completed with the size and digest that were declared.
Complete ==
    /\ evidence.at = "complete"
    /\ LET completed == evidence.completed \cup {evidence.file}
           last == completed = File
       IN \E wait \in BOOLEAN :
            evidence' = [evidence EXCEPT !.completed = completed, !.file = NoFile,
                !.at = IF ~last THEN "check" ELSE IF wait THEN "wait" ELSE "done",
                !.left = IF last /\ wait THEN WaitSeconds ELSE 0]
    /\ UNCHANGED disk

\* Mutant: a deadline that has passed starts anew.
AwaitAnew ==
    /\ evidence.at = "wait"
    /\ \/ evidence' = [evidence EXCEPT !.at = "done"]
       \/ evidence' = [evidence EXCEPT !.left = IF @ = 0 THEN WaitSeconds
                                                ELSE IF @ < 5 THEN 0 ELSE @ - 5]
    /\ UNCHANGED disk

\* _wait: sleeps at most five seconds and never past the deadline, then asks again.
AwaitIntent ==
    /\ evidence.at = "wait"
    /\ \/ evidence' = [evidence EXCEPT !.at = "done"]
       \/ /\ evidence.left > 0
          /\ evidence' = [evidence EXCEPT !.left = IF @ < 5 THEN 0 ELSE @ - 5]
       \/ /\ evidence.left = 0
          /\ evidence' = [evidence EXCEPT !.at = "failed"]
    /\ UNCHANGED disk

EvidenceStep ==
    \/ Hash \/ Prepare \/ Stream \/ Complete \/ AwaitIntent \/ EvidenceFails
    \/ \E f \in File : OpenToHash(f) \/ RequireUnchanged(f)
EvidenceNext == EvidenceBegin \/ EvidenceStep \/ \E f \in File : Edit(f)
EvidenceSpec == EvidenceInit /\ [][EvidenceNext]_evidenceVars

-----------------------------------------------------------------------------
\* Every field has its type.
EvidenceTypeOK ==
    LET content == (0..MaxEdits) \cup {NoFile}
    IN /\ disk \in [File -> 0..MaxEdits]
       /\ evidence \in [at : {"idle", "hash", "check", "stream", "complete", "wait", "done", "failed"},
                        file : File \cup {NoFile}, opened : content,
                        hashed : [File -> content], stored : [File -> content],
                        completed : SUBSET File, left : 0..WaitSeconds, raced : SUBSET File]

\* Every completed entry of an intent has the bytes that its digest declares, even if files
\* were edited while others were uploaded: only an edit of the very file that is being
\* streamed escapes the check (evidence_commands.py 66-131 and 286-336).
StoredAsDeclared ==
    \A f \in evidence.completed \ evidence.raced : evidence.stored[f] = evidence.hashed[f]
=============================================================================
