-------------------------------- MODULE Disk --------------------------------
(***************************************************************************)
(* The files an application serves, which others change while it runs: an  *)
(* editor, a deployment.  A file is <<directory, name>>; its content is a  *)
(* record that stands for its bytes and for their hash.                    *)
(***************************************************************************)
EXTENDS Naturals, Sequences, SequencesExt, FiniteSetsExt

CONSTANTS
    Sites,     \* what there is to serve: files, contents, their changes
    MaxTime    \* modification times

VARIABLES
    site,   \* one of Sites
    disk,   \* of each file its content and modification time
    times   \* history: the modification times there were

diskVars == <<site, disk, times>>

NoContent == [gone |-> TRUE]
IsFile(f) == disk[f].content # NoContent
Mtime(f) == disk[f].mtime
Content(f) == disk[f].content

DiskInit ==
    /\ site \in Sites
    /\ disk = [f \in DOMAIN site.files |->
                  [content |-> site.files[f], mtime |-> 1]]
    /\ times = {1}

(* A file is written, replaced or deleted.  Its time is one it never had,  *)
(* but may be in the past: a file that is moved keeps its time.            *)
Change(f, content) ==
    /\ content # Content(f)
    /\ \E t \in 1..MaxTime \ times :
        /\ disk' = [disk EXCEPT ![f] = [content |-> content, mtime |-> t]]
        /\ times' = times \cup {t}
    /\ UNCHANGED site
=============================================================================
