----------------------------- MODULE FileStore ------------------------------
(***************************************************************************)
(* What the flash file system promises: a set of whole files.  A file      *)
(* appears when its copy is finished, with all its data, and goes when it  *)
(* is deleted or the flash is formatted.  Loss of power and repairs change *)
(* no file.  A copy that fails is closed with what it has and deleted, so  *)
(* power lost between the two leaves the beginning of the file.            *)
(***************************************************************************)
EXTENDS Naturals

CONSTANTS Names, Sizes

VARIABLES
  files,   \* the whole files
  task     \* what is being done: nothing, or an operation with its file

fvars == <<files, task>>

\* The file of name n with the first s units of its data.
File(n, s) == [name |-> n, data |-> [i \in 1..s |-> <<n, i>>]]

Named(n) == {f \in files : f.name = n}

NoTask == [op |-> "none"]

FInit == files = {} /\ task = NoTask

Begin ==
  /\ task = NoTask /\ UNCHANGED files
  /\ \/ \E n \in Names, s \in Sizes :
          Named(n) = {} /\ task' = [op |-> "put", name |-> n, size |-> s]
     \/ \E n \in Names : task' = [op |-> "remove", name |-> n]
     \/ task' = [op |-> "format"]

Put ==
  /\ task.op = "put"
  /\ files' = files \cup {File(task.name, task.size)}
  /\ task' = NoTask

Fail ==
  /\ task.op = "put"
  /\ \E s \in 0..task.size : files' = files \cup {File(task.name, s)}
  /\ task' = [op |-> "remove", name |-> task.name]

Remove ==
  /\ task.op = "remove"
  /\ files' = files \ Named(task.name)
  /\ task' \in {task, NoTask}

Wipe ==
  /\ task.op = "format"
  /\ files' \in SUBSET files
  /\ task' \in {task, NoTask}

\* Also when power is lost or the user stops the operation; power lost in an
\* erase is a Remove or a Wipe that ends the task.
End == task' = NoTask /\ UNCHANGED files

FNext == Begin \/ Put \/ Fail \/ Remove \/ Wipe \/ End

FSpec == FInit /\ [][FNext]_fvars

=============================================================================
