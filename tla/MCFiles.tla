------------------------------ MODULE MCFiles -------------------------------
(* Files on the images mkfs builds, small ones. *)
EXTENDS Mkfs

Home == homeino
Built == {mkfs(files) : files \in {
            <<>>,
            <<[bin |-> TRUE, bytes |-> <<7>>], [bin |-> FALSE, bytes |-> <<7, 7, 7, 7, 7>>]>>}}
MetaBlocks == nmeta
=============================================================================
