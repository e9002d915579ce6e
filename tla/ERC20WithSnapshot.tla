------------------------- MODULE ERC20WithSnapshot -------------------------
(***************************************************************************)
(* contracts/lib/ERC20WithSnapshot.sol: the balance history the first      *)
(* StakedToken keeps.  _snapshots[owner] with its _countsSnapshots[owner]  *)
(* is the sequence snapshots[owner] of records; the governance callback of *)
(* _beforeTokenTransfer is absent, since every deployment of the           *)
(* repository initialises _governance to the zero address.                 *)
(***************************************************************************)
EXTENDS Naturals, Sequences

CONSTANT ZERO_ADDRESS

Snapshot == [blockNumber : Nat, value : Nat]

InitSnapshots(Owners) == [o \in Owners |-> <<>>]

(* Mutant: the last snapshot is replaced whatever its block. *)
WriteSnapshotOver(snapshots, owner, newValue, currentBlock) ==
  LET entry == [blockNumber |-> currentBlock, value |-> newValue]
  IN  IF snapshots[owner] # <<>>
      THEN [snapshots EXCEPT ![owner][Len(snapshots[owner])] = entry]
      ELSE [snapshots EXCEPT ![owner] = <<entry>>]

(* _writeSnapshot: several operations of one block share a snapshot. *)
WriteSnapshot(snapshots, owner, newValue, currentBlock) ==
  LET history == snapshots[owner]
      count   == Len(history)
      entry   == [blockNumber |-> currentBlock, value |-> newValue]
  IN  IF count # 0 /\ history[count].blockNumber = currentBlock
      THEN [snapshots EXCEPT ![owner][count].value = newValue]
      ELSE [snapshots EXCEPT ![owner] = Append(history, entry)]

(* _beforeTokenTransfer, called by _mint (from the zero address), _burn (to *)
(* the zero address) and _transfer before the balances change.              *)
SnapshotsBeforeTransfer(snapshots, balances, from, to, amount, currentBlock) ==
  LET debited  == IF from = ZERO_ADDRESS THEN snapshots
                  ELSE WriteSnapshot(snapshots, from, balances[from] - amount, currentBlock)
      credited == IF to = ZERO_ADDRESS THEN debited
                  ELSE WriteSnapshot(debited, to, balances[to] + amount, currentBlock)
  IN  IF from = to THEN snapshots ELSE credited
============================================================================
