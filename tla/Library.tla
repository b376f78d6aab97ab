------------------------------ MODULE Library ------------------------------
(***************************************************************************)
(* The library's computations that share nothing: each has its context,    *)
(* kept by the caller, and no other state.  One is used at a time, so that *)
(* the state space is the sum of theirs.                                   *)
(***************************************************************************)
EXTENDS Numbers, AeadStream, CbcRecord, Chain, AeadRecord

LibraryVars == <<num, aead, stream, cbc, chain, link>>

LibraryInit == NumInit /\ AeadInit /\ StreamInit /\ CbcInit /\ ChainInit /\ LinkInit
NumUnused == num = NoNumber /\ UNCHANGED num
AeadUnused == aead = NoAead /\ UNCHANGED aead
StreamUnused == stream = NoStream /\ UNCHANGED stream
CbcUnused == cbc = NoCbc /\ UNCHANGED cbc
ChainUnused == chain = NoChain /\ UNCHANGED chain
LinkUnused == link = NoLink /\ UNCHANGED link
LibraryNext ==
  \/ AeadUnused /\ StreamUnused /\ CbcUnused /\ ChainUnused /\ LinkUnused /\ NumNext
  \/ NumUnused /\ StreamUnused /\ CbcUnused /\ ChainUnused /\ LinkUnused /\ AeadNext
  \/ NumUnused /\ AeadUnused /\ CbcUnused /\ ChainUnused /\ LinkUnused /\ StreamNext
  \/ NumUnused /\ AeadUnused /\ StreamUnused /\ ChainUnused /\ LinkUnused /\ CbcNext
  \/ NumUnused /\ AeadUnused /\ StreamUnused /\ CbcUnused /\ LinkUnused /\ ChainNext
  \/ NumUnused /\ AeadUnused /\ StreamUnused /\ CbcUnused /\ ChainUnused /\ LinkNext
LibrarySpec == LibraryInit /\ [][LibraryNext]_LibraryVars
=============================================================================
