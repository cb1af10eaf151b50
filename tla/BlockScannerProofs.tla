-------------------------- MODULE BlockScannerProofs --------------------------
(***************************************************************************)
(* Proofs about BlockScanner, for any transactions, addresses, chains,     *)
(* reorganisations, restarts and confirmations.                            *)
(***************************************************************************)
EXTENDS BlockScanner, SequenceTheorems, TLAPS

-----------------------------------------------------------------------------
(* The inductive invariant *)

IsPrefix(b, c) == Len(b) <= Len(c) /\ \A i \in 1..Len(b) : b[i] = c[i]

(* The first h headers of b have been scanned.                              *)
Passed(b, h) == \E p \in passed : p.block = SubSeq(b, 1, h)

(* Only the chain of some coins is reorganised; while it is not, what the   *)
(* scanner holds is on it.                                                  *)
ForkInv ==
    /\ coin \notin Forking => forks = 0
    /\ forks = 0 => OnChain(block) /\ OnChain(next)

(* The block in hand, its successor, and what has been scanned below it.    *)
BlockInv ==
    /\ step \in {"scan", "next"} => InitialHeight <= Len(block)
    /\ next # <<>> => Len(next) = Len(block) + 1 /\ IsPrefix(block, next)
    /\ coin \notin ByHash => next = <<>>
    /\ step \in {"scan", "next"} =>
          \A h \in InitialHeight..(Len(block) - 1) : Passed(block, h)
    /\ step = "next" => Passed(block, Len(block))

(* A row has the index its block gave the output, and a key of its own.     *)
KeyInv ==
    /\ \A r \in found : r.n = IndexOf(r.vout)
    /\ \A q, r \in found : SameKey(q, r) => q = r

(* What was found lies on the chain.                                        *)
FoundHeights == forks = 0 => \A r \in found : r.height \in 1..Len(chain)

ScannerInv ==
    /\ TypeOK
    /\ ForkInv
    /\ BlockInv
    /\ KeyInv
    /\ PassedIsFound
    /\ FoundWasConfirmed
    /\ FoundHeights
    /\ FoundIsPaid

-----------------------------------------------------------------------------
(* Lemmas about chains *)

(* A shorter prefix of a prefix is the same in both.                        *)
LEMMA PrefixCut ==
    ASSUME NEW b \in Block, NEW c \in Block, IsPrefix(b, c), NEW h \in 1..Len(b)
    PROVE  SubSeq(b, 1, h) = SubSeq(c, 1, h)
<1>1. /\ SubSeq(b, 1, h) \in Seq(Header) /\ Len(SubSeq(b, 1, h)) = h
      /\ \A i \in 1..h : SubSeq(b, 1, h)[i] = b[i]
  BY SubSeqProperties, ElementOfSeq, LenProperties DEF Block
<1>2. Len(b) <= Len(c) /\ Len(b) \in Nat /\ Len(c) \in Nat
  BY LenProperties DEF Block, IsPrefix
<1>3. /\ SubSeq(c, 1, h) \in Seq(Header) /\ Len(SubSeq(c, 1, h)) = h
      /\ \A i \in 1..h : SubSeq(c, 1, h)[i] = c[i]
  <2>1. \A i \in 1..h : c[i] \in Header
    BY <1>2, ElementOfSeq DEF Block
  <2> QED BY <2>1, <1>2, SubSeqProperties
<1>4. \A i \in 1..h : b[i] = c[i]
  BY <1>2 DEF IsPrefix
<1> QED BY <1>1, <1>3, <1>4, SeqEqual

(* The block of the chain at a height.                                      *)
LEMMA BlockAtIs ==
    ASSUME TypeOK, NEW h \in 0..Len(chain)
    PROVE  /\ BlockAt(h) \in Block
           /\ Len(BlockAt(h)) = h
           /\ \A i \in 1..h : BlockAt(h)[i] = chain[i]
           /\ OnChain(BlockAt(h))
<1>1. chain \in Seq(Header) /\ Len(chain) \in Nat
  BY LenProperties DEF TypeOK, Block
<1>2. \A i \in 1..h : chain[i] \in Header
  BY <1>1, ElementOfSeq
<1>3. /\ BlockAt(h) \in Block /\ Len(BlockAt(h)) = h
      /\ \A i \in 1..h : BlockAt(h)[i] = chain[i]
  BY <1>1, <1>2, SubSeqProperties DEF BlockAt, Block
<1> QED BY <1>1, <1>3 DEF OnChain

(* NextHash leads from a block to its successor on the chain.               *)
LEMMA NextOfIs ==
    ASSUME TypeOK, NEW b \in Block
    PROVE  /\ NextOf(b) \in Block
           /\ OnChain(NextOf(b))
           /\ coin \notin ByHash => NextOf(b) = <<>>
           /\ NextOf(b) # <<>> =>
                 Len(NextOf(b)) = Len(b) + 1 /\ IsPrefix(b, NextOf(b))
<1>1. Len(b) \in Nat /\ Len(chain) \in Nat
  BY LenProperties DEF TypeOK, Block
<1>2. CASE coin \in ByHash /\ OnChain(b) /\ Len(b) < Len(chain)
  <2>1. Len(b) + 1 \in 0..Len(chain) /\ NextOf(b) = BlockAt(Len(b) + 1)
    BY <1>1, <1>2 DEF NextOf
  <2>2. /\ NextOf(b) \in Block /\ OnChain(NextOf(b)) /\ Len(NextOf(b)) = Len(b) + 1
        /\ \A i \in 1..(Len(b) + 1) : NextOf(b)[i] = chain[i]
    BY <2>1, BlockAtIs
  <2> QED BY <1>1, <1>2, <2>2 DEF OnChain, IsPrefix
<1>3. CASE ~(coin \in ByHash /\ OnChain(b) /\ Len(b) < Len(chain))
  <2>1. NextOf(b) = <<>> /\ Len(<<>>) = 0 /\ <<>> \in Block
    BY <1>3, EmptySeq DEF NextOf, Block
  <2> QED BY <1>1, <2>1 DEF OnChain
<1> QED BY <1>2, <1>3

-----------------------------------------------------------------------------
(* The node *)

(* A chain that grows by one keeps everything but, perhaps, what is on it.  *)
LEMMA NodeKeeps ==
    ASSUME ScannerInv, chain' \in Block, Len(chain') = Len(chain) + 1, forks' \in Nat,
           ForkInv', FoundHeights', FoundIsPaid',
           UNCHANGED <<coin, dbVars, scanVars, restarts>>
    PROVE  ScannerInv'
<1>1. Len(chain) \in Nat /\ CountAhead[coin] \in Nat /\ Confirmations[coin] \in Nat
  BY LenProperties, ScannerAssumption DEF ScannerInv, TypeOK, Block
<1>2. TypeOK'
  <2>1. chain' # <<>>
    BY <1>1, EmptySeq
  <2> QED BY <2>1 DEF ScannerInv, TypeOK, dbVars, scanVars
<1>3. BlockInv' /\ KeyInv' /\ PassedIsFound'
  BY DEF ScannerInv, BlockInv, Passed, KeyInv, SameKey, PassedIsFound, Stored, dbVars, scanVars
<1>4. FoundWasConfirmed'
  <2>1. SUFFICES ASSUME NEW r \in found
                 PROVE  r.height + Confirmations[coin] <= BestHeight'
    BY DEF FoundWasConfirmed, dbVars
  <2>2. r.height + Confirmations[coin] <= Len(chain) + CountAhead[coin] /\ r.height \in Nat
    BY <2>1 DEF ScannerInv, FoundWasConfirmed, BestHeight, TypeOK, Row
  <2> QED BY <1>1, <2>2 DEF BestHeight
<1> QED BY <1>2, <1>3, <1>4 DEF ScannerInv

LEMMA MineKeeps ==
    ASSUME ScannerInv, NEW T \in SUBSET Txs, Mine(T)
    PROVE  ScannerInv'
<1>1. chain \in Seq(Header) /\ Len(chain) \in Nat /\ forks \in Nat
  BY LenProperties DEF ScannerInv, TypeOK, Block
<1>2. [txs |-> T, nonce |-> forks] \in Header
  BY <1>1 DEF Header
<1>3. /\ chain' \in Seq(Header) /\ Len(chain') = Len(chain) + 1
      /\ \A i \in 1..Len(chain) : chain'[i] = chain[i]
  BY <1>1, <1>2, AppendProperties DEF Mine
<1>4. UNCHANGED <<coin, forks, dbVars, scanVars, restarts>>
  BY DEF Mine
<1>5. \A b \in Block : OnChain(b) => OnChain(b)'
  <2>1. ASSUME NEW b \in Block, OnChain(b) PROVE OnChain(b)'
    <3>1. Len(b) \in Nat /\ Len(b) <= Len(chain) /\ \A i \in 1..Len(b) : b[i] = chain[i]
      BY <2>1, LenProperties DEF OnChain, Block
    <3> QED BY <1>1, <1>3, <3>1 DEF OnChain
  <2> QED BY <2>1
<1>6. ForkInv'
  BY <1>4, <1>5 DEF ScannerInv, ForkInv, TypeOK, OnChain, scanVars
<1>7. FoundIsPaid'
  <2>1. SUFFICES ASSUME forks = 0, NEW r \in found
                 PROVE  /\ r.tx \in chain'[r.height].txs
                        /\ <<r.vout, r.addr>> \in Pays[r.tx] /\ r.addr \in scanAddrs
    BY <1>4 DEF FoundIsPaid, dbVars
  <2> QED BY <1>3, <2>1 DEF ScannerInv, FoundIsPaid, FoundHeights
<1>8. FoundHeights'
  BY <1>1, <1>3, <1>4 DEF ScannerInv, FoundHeights, dbVars
<1> QED BY <1>1, <1>3, <1>4, <1>6, <1>7, <1>8, NodeKeeps DEF Block

LEMMA ReorganiseKeeps ==
    ASSUME ScannerInv, NEW h \in 1..MaxHeight, NEW T \in SUBSET Txs, Reorganise(h, T)
    PROVE  ScannerInv'
<1> DEFINE branch == [i \in 1..(Len(chain) - h + 1) |->
                         [txs |-> IF i = 1 THEN T ELSE {}, nonce |-> forks']]
<1>1. Len(chain) \in Nat /\ forks \in Nat /\ h \in 1..(Len(chain) - 1)
  BY LenProperties DEF ScannerInv, TypeOK, Block, Reorganise
<1>2. BlockAt(h) \in Seq(Header) /\ Len(BlockAt(h)) = h
  BY <1>1, BlockAtIs DEF ScannerInv, Block
<1>3. branch \in Seq(Header) /\ Len(branch) = Len(chain) - h + 1
  <2>1. forks' \in Nat /\ Len(chain) - h + 1 \in Nat
    BY <1>1 DEF Reorganise
  <2>2. \A i \in 1..(Len(chain) - h + 1) :
           [txs |-> IF i = 1 THEN T ELSE {}, nonce |-> forks'] \in Header
    BY <2>1 DEF Header
  <2> QED BY <2>1, <2>2
<1>4. chain' = BlockAt(h) \o branch
  BY DEF Reorganise
<1>5. chain' \in Seq(Header) /\ Len(chain') = Len(chain) + 1
  <2>1. \A s, t \in Seq(Header) : s \o t \in Seq(Header) /\ Len(s \o t) = Len(s) + Len(t)
    BY ConcatProperties
  <2>2. chain' \in Seq(Header) /\ Len(chain') = Len(BlockAt(h)) + Len(branch)
    BY <1>2, <1>3, <1>4, <2>1, Zenon
  <2> QED BY <1>1, <1>2, <1>3, <2>2
<1>6. forks' \in Nat /\ forks' # 0 /\ coin' \in Forking
  BY <1>1 DEF Reorganise
<1>7. ForkInv' /\ FoundHeights' /\ FoundIsPaid'
  BY <1>6 DEF ForkInv, FoundHeights, FoundIsPaid
<1> QED BY <1>5, <1>6, <1>7, NodeKeeps DEF Reorganise, Block

-----------------------------------------------------------------------------
(* The scan loop *)

(* A new block in hand, reached from one that was scanned.                  *)
LEMMA NextKeeps ==
    ASSUME ScannerInv, step = "next", step' = "scan", block' \in Block, next' \in Block,
           Len(block') = Len(block) + 1, IsPrefix(block, block'),
           next' # <<>> => Len(next') = Len(block') + 1 /\ IsPrefix(block', next'),
           coin \notin ByHash => next' = <<>>,
           forks = 0 => OnChain(block') /\ OnChain(next'),
           UNCHANGED <<coin, nodeVars, dbVars, passed, restarts>>
    PROVE  ScannerInv'
<1>1. TypeOK'
  BY DEF ScannerInv, TypeOK, nodeVars, dbVars
<1>2. ForkInv'
  BY DEF ScannerInv, ForkInv, nodeVars, OnChain
<1>3. Len(block) \in Nat /\ InitialHeight \in Nat \ {0} /\ InitialHeight <= Len(block)
  BY LenProperties, ScannerAssumption DEF ScannerInv, TypeOK, BlockInv, Block
<1>4. ASSUME NEW h \in InitialHeight..(Len(block') - 1)
      PROVE  Passed(block, h) /\ SubSeq(block, 1, h) = SubSeq(block', 1, h)
  <2>1. h \in 1..Len(block)
    BY <1>3
  <2>2. Passed(block, h)
    BY <1>3 DEF ScannerInv, BlockInv
  <2> QED BY <2>1, <2>2, PrefixCut DEF ScannerInv, TypeOK
<1>5. BlockInv'
  BY <1>3, <1>4 DEF BlockInv, Passed
<1>6. KeyInv' /\ PassedIsFound' /\ FoundWasConfirmed' /\ FoundHeights' /\ FoundIsPaid'
  BY DEF ScannerInv, KeyInv, SameKey, PassedIsFound, Stored, FoundWasConfirmed, BestHeight,
         FoundHeights, FoundIsPaid, nodeVars, dbVars
<1> QED BY <1>1, <1>2, <1>5, <1>6 DEF ScannerInv

(* A step that scans nothing and stays at its block.                        *)
LEMMA StandKeeps ==
    ASSUME ScannerInv, UNCHANGED <<coin, nodeVars, found, block, passed>>,
           scanAddrs \subseteq scanAddrs', scanAddrs' \subseteq Addresses, restarts' \in Nat,
           \/ step' = step
           \/ step' \in {"stopped", "crashed"},
           next' \in Block, forks = 0 => OnChain(next'),
           next' # <<>> => Len(next') = Len(block) + 1 /\ IsPrefix(block, next'),
           coin \notin ByHash => next' = <<>>
    PROVE  ScannerInv'
<1>1. TypeOK'
  BY DEF ScannerInv, TypeOK, nodeVars
<1>2. ForkInv' /\ BlockInv'
  BY DEF ScannerInv, ForkInv, BlockInv, Passed, nodeVars, OnChain
<1>3. KeyInv' /\ PassedIsFound' /\ FoundWasConfirmed' /\ FoundHeights' /\ FoundIsPaid'
  BY DEF ScannerInv, KeyInv, SameKey, PassedIsFound, Stored, FoundWasConfirmed, BestHeight,
         FoundHeights, FoundIsPaid, nodeVars
<1> QED BY <1>1, <1>2, <1>3 DEF ScannerInv

LEMMA LoadKeeps ==
    ASSUME ScannerInv, LoadInitialBlock
    PROVE  ScannerInv'
<1>1. InitialHeight \in 0..Len(chain) /\ InitialHeight \in Nat \ {0} /\ TypeOK
  BY LenProperties, ScannerAssumption DEF ScannerInv, TypeOK, Block, LoadInitialBlock
<1>2. block' \in Block /\ Len(block') = InitialHeight /\ OnChain(block')
  BY <1>1, BlockAtIs DEF LoadInitialBlock
<1>3. /\ next' \in Block /\ OnChain(next')
      /\ coin \notin ByHash => next' = <<>>
      /\ next' # <<>> => Len(next') = Len(block') + 1 /\ IsPrefix(block', next')
  BY <1>1, <1>2, NextOfIs DEF LoadInitialBlock
<1>4. TypeOK'
  BY <1>2, <1>3 DEF ScannerInv, TypeOK, LoadInitialBlock, nodeVars, dbVars
<1>5. ForkInv' /\ BlockInv'
  BY <1>1, <1>2, <1>3 DEF ScannerInv, ForkInv, BlockInv, LoadInitialBlock, nodeVars, OnChain
<1>6. KeyInv' /\ PassedIsFound' /\ FoundWasConfirmed' /\ FoundHeights' /\ FoundIsPaid'
  BY DEF ScannerInv, KeyInv, SameKey, PassedIsFound, Stored, FoundWasConfirmed, BestHeight,
         FoundHeights, FoundIsPaid, nodeVars, dbVars, LoadInitialBlock
<1> QED BY <1>4, <1>5, <1>6 DEF ScannerInv

LEMMA ScanKeeps ==
    ASSUME ScannerInv, ScanBlock
    PROVE  ScannerInv'
<1>1. PICK R \in SUBSET Outputs(block) : NewRows(block, R) /\ found' = found \cup R
  BY DEF ScanBlock
<1> DEFINE scan == [block |-> block, addrs |-> scanAddrs]
<1>2. /\ step = "scan" /\ step' = "next" /\ Confirmed(block)
      /\ passed' = passed \cup {scan}
      /\ UNCHANGED <<coin, nodeVars, scanAddrs, block, next, restarts>>
  BY DEF ScanBlock
<1>3. /\ block \in Seq(Header) /\ Len(block) \in Nat /\ Len(chain) \in Nat
      /\ InitialHeight \in Nat \ {0} /\ InitialHeight <= Len(block)
  BY <1>2, LenProperties, ScannerAssumption DEF ScannerInv, TypeOK, BlockInv, Block
<1>4. block[Len(block)] \in Header
  BY <1>3, ElementOfSeq
<1>5. ASSUME NEW r \in R
      PROVE  /\ r \in Row /\ r.tx \in block[Len(block)].txs
             /\ r.n = IndexOf(r.vout) /\ r.height = Len(block)
             /\ <<r.vout, r.addr>> \in Pays[r.tx] /\ r.addr \in scanAddrs
  <2>1. PICK t \in block[Len(block)].txs : \E o \in Pays[t] :
           /\ o[2] \in scanAddrs
           /\ r = [tx |-> t, n |-> IndexOf(o[1]), vout |-> o[1], addr |-> o[2],
                   height |-> Height(block)]
    BY <1>1 DEF Outputs
  <2>2. PICK o \in Pays[t] :
           /\ o[2] \in scanAddrs
           /\ r = [tx |-> t, n |-> IndexOf(o[1]), vout |-> o[1], addr |-> o[2],
                   height |-> Height(block)]
    BY <2>1
  <2>3. t \in Txs /\ o \in Nat \X Addresses /\ o = <<o[1], o[2]>> /\ IndexOf(o[1]) \in Nat
    BY <1>4, ScannerAssumption DEF Header, IndexOf
  <2> QED BY <1>3, <2>2, <2>3 DEF Row, Height
<1>6. TypeOK'
  <2>1. found' \subseteq Row
    BY <1>1, <1>5 DEF ScannerInv, TypeOK
  <2>2. passed' \subseteq [block : Block, addrs : SUBSET Addresses]
    BY <1>2 DEF ScannerInv, TypeOK
  <2> QED BY <1>2, <2>1, <2>2 DEF ScannerInv, TypeOK, nodeVars
<1>7. ForkInv'
  BY <1>2 DEF ScannerInv, ForkInv, nodeVars, OnChain
<1>8. BlockInv'
  <2>1. SubSeq(block, 1, Len(block)) = block
    BY <1>3, SubSeqFull
  <2>2. \A h : Passed(block, h) => Passed(block, h)'
    BY <1>2 DEF Passed
  <2>3. scan \in passed' /\ scan.block = SubSeq(block', 1, Len(block'))
    BY <1>2, <2>1
  <2>4. Passed(block, Len(block))'
    BY <2>3 DEF Passed
  <2> QED BY <1>2, <2>2, <2>4 DEF ScannerInv, BlockInv
<1>9. KeyInv'
  <2>1. \A r \in found' : r.n = IndexOf(r.vout)
    BY <1>1, <1>5 DEF ScannerInv, KeyInv
  <2>2. \A q \in found, r \in R : ~SameKey(q, r) /\ ~SameKey(r, q)
    BY <1>1 DEF NewRows, Stored, SameKey
  <2>3. \A q, r \in found' : SameKey(q, r) => q = r
    BY <1>1, <2>2 DEF ScannerInv, KeyInv, NewRows
  <2> QED BY <2>1, <2>3 DEF KeyInv, SameKey
<1>10. PassedIsFound'
  <2>1. \A t, n : Stored(t, n) => Stored(t, n)'
    BY <1>1 DEF Stored
  <2>2. ASSUME NEW t \in block[Len(block)].txs, NEW o \in Pays[t], o[2] \in scanAddrs
        PROVE  Stored(t, IndexOf(o[1]))'
    <3> DEFINE r == [tx |-> t, n |-> IndexOf(o[1]), vout |-> o[1], addr |-> o[2],
                     height |-> Height(block)]
    <3>1. r \in Outputs(block) /\ r.tx = t /\ r.n = IndexOf(o[1])
      BY <2>2 DEF Outputs
    <3>2. Stored(r.tx, r.n) \/ \E q \in R : SameKey(q, r)
      BY <1>1, <3>1 DEF NewRows
    <3> HIDE DEF r
    <3> QED BY <1>1, <2>1, <3>1, <3>2 DEF Stored, SameKey
  <2>3. ASSUME NEW p \in passed', NEW t \in p.block[Len(p.block)].txs, NEW o \in Pays[t],
               o[2] \in p.addrs
        PROVE  Stored(t, IndexOf(o[1]))'
    <3>1. CASE p \in passed
      BY <2>1, <2>3, <3>1 DEF ScannerInv, PassedIsFound
    <3>2. CASE p = scan
      BY <2>2, <2>3, <3>2
    <3> QED BY <1>2, <3>1, <3>2
  <2> QED BY <2>3 DEF PassedIsFound, IndexOf
<1>11. FoundWasConfirmed'
  <2>1. \A r \in R : r.height + Confirmations[coin] <= BestHeight
    BY <1>2, <1>5 DEF Confirmed, Height
  <2> QED BY <1>1, <1>2, <2>1 DEF ScannerInv, FoundWasConfirmed, BestHeight, nodeVars
<1>12. FoundHeights' /\ FoundIsPaid'
  <2>1. ASSUME forks = 0, NEW r \in R
        PROVE  /\ r.height \in 1..Len(chain) /\ r.tx \in chain[r.height].txs
               /\ <<r.vout, r.addr>> \in Pays[r.tx] /\ r.addr \in scanAddrs
    <3>1. Len(block) \in 1..Len(chain) /\ block[Len(block)] = chain[Len(block)]
      BY <1>3, <2>1 DEF ScannerInv, ForkInv, OnChain
    <3> QED BY <1>5, <3>1
  <2> QED BY <1>1, <1>2, <2>1 DEF ScannerInv, FoundHeights, FoundIsPaid, nodeVars
<1> QED BY <1>6, <1>7, <1>8, <1>9, <1>10, <1>11, <1>12 DEF ScannerInv

LEMMA NextByHashKeeps ==
    ASSUME ScannerInv, NextByHash
    PROVE  ScannerInv'
<1>1. /\ block' = next /\ next \in Block
      /\ Len(next) = Len(block) + 1 /\ IsPrefix(block, next)
  BY DEF ScannerInv, TypeOK, BlockInv, NextByHash
<1>2. next' = NextOf(next) /\ TypeOK
  BY DEF ScannerInv, NextByHash
<1>3. /\ next' \in Block /\ OnChain(next')
      /\ coin \notin ByHash => next' = <<>>
      /\ next' # <<>> => Len(next') = Len(next) + 1 /\ IsPrefix(next, next')
  BY <1>1, <1>2, NextOfIs
<1>4. forks = 0 => OnChain(block') /\ OnChain(next')
  BY <1>1, <1>3 DEF ScannerInv, ForkInv
<1> QED BY <1>1, <1>3, <1>4, NextKeeps DEF NextByHash

LEMMA NextByHeightKeeps ==
    ASSUME ScannerInv, NextByHeight
    PROVE  ScannerInv'
<1>1. TypeOK /\ Len(block) \in Nat /\ Len(block) + 1 \in 0..Len(chain)
  BY LenProperties DEF ScannerInv, TypeOK, Block, NextByHeight, Height
<1>2. block' = BlockAt(Len(block) + 1)
  BY DEF NextByHeight, Height
<1>3. /\ block' \in Block /\ Len(block') = Len(block) + 1 /\ OnChain(block')
      /\ \A i \in 1..(Len(block) + 1) : block'[i] = chain[i]
  BY <1>1, <1>2, BlockAtIs
<1>4. forks = 0 /\ OnChain(block) /\ OnChain(next)
  BY ScannerAssumption DEF ScannerInv, ForkInv, NextByHeight
<1>5. IsPrefix(block, block')
  BY <1>1, <1>3, <1>4 DEF IsPrefix, OnChain
<1>6. next = <<>> /\ UNCHANGED <<next, coin, nodeVars, dbVars, passed, restarts>>
  BY DEF NextByHeight, ScannerInv, BlockInv
<1> QED BY <1>3, <1>4, <1>5, <1>6, NextKeeps DEF NextByHeight, ScannerInv, TypeOK

-----------------------------------------------------------------------------
(* Every step *)

LEMMA InitInv == ASSUME Init PROVE ScannerInv
<1>1. PICK T \in SUBSET Txs : chain = <<[txs |-> T, nonce |-> 0]>>
  BY DEF Init
<1>2. <<>> \in Block /\ Len(<<>>) = 0
  BY EmptySeq DEF Block
<1>3. chain \in Block /\ chain # <<>> /\ Len(chain) = 1
  <2>1. [txs |-> T, nonce |-> 0] \in Header
    BY DEF Header
  <2> QED BY <1>1, <2>1 DEF Block
<1>4. TypeOK
  BY <1>2, <1>3, ScannerAssumption DEF Init, TypeOK
<1>5. ForkInv /\ BlockInv
  BY <1>2, <1>3 DEF Init, ForkInv, BlockInv, OnChain
<1> QED BY <1>4, <1>5 DEF Init, ScannerInv, KeyInv, SameKey, PassedIsFound, FoundWasConfirmed,
                           FoundHeights, FoundIsPaid

LEMMA RestartKeeps ==
    ASSUME ScannerInv, Restart
    PROVE  ScannerInv'
<1>1. <<>> \in Block /\ Len(<<>>) = 0 /\ Len(chain) \in Nat
  BY EmptySeq, LenProperties DEF ScannerInv, TypeOK, Block
<1>2. TypeOK'
  BY <1>1 DEF ScannerInv, TypeOK, Restart, nodeVars, dbVars
<1>3. ForkInv' /\ BlockInv' /\ PassedIsFound'
  BY <1>1 DEF ScannerInv, ForkInv, BlockInv, PassedIsFound, Restart, OnChain, nodeVars
<1>4. KeyInv' /\ FoundWasConfirmed' /\ FoundHeights' /\ FoundIsPaid'
  BY DEF ScannerInv, KeyInv, SameKey, FoundWasConfirmed, BestHeight, FoundHeights, FoundIsPaid,
         Restart, nodeVars, dbVars
<1> QED BY <1>2, <1>3, <1>4 DEF ScannerInv

LEMMA NextInv == ASSUME ScannerInv, [Next]_vars PROVE ScannerInv'
<1> USE DEF ScannerInv
<1>1. CASE LoadInitialBlock
  BY <1>1, LoadKeeps
<1>2. CASE ScanBlock
  BY <1>2, ScanKeeps
<1>3. CASE Refetch
  <2>1. /\ NextOf(block) \in Block /\ OnChain(NextOf(block))
        /\ NextOf(block) # <<>> =>
              Len(NextOf(block)) = Len(block) + 1 /\ IsPrefix(block, NextOf(block))
    BY NextOfIs DEF TypeOK
  <2> QED BY <1>3, <2>1, StandKeeps DEF Refetch, dbVars, TypeOK
<1>4. CASE NextByHash
  BY <1>4, NextByHashKeeps
<1>5. CASE NextByHeight
  BY <1>5, NextByHeightKeeps
<1>6. CASE LoadFails
  BY <1>6, StandKeeps DEF LoadFails, dbVars, TypeOK, ForkInv, BlockInv
<1>7. CASE RefetchFails
  BY <1>7, StandKeeps DEF RefetchFails, dbVars, TypeOK, ForkInv, BlockInv
<1>8. ASSUME NEW T \in SUBSET Txs, Mine(T) PROVE ScannerInv'
  BY <1>8, MineKeeps
<1>9. ASSUME NEW T \in SUBSET Txs, NEW h \in 1..MaxHeight, Reorganise(h, T) PROVE ScannerInv'
  BY <1>9, ReorganiseKeeps
<1>10. ASSUME NEW a \in Addresses, AddScanAddress(a) PROVE ScannerInv'
  BY <1>10, StandKeeps DEF AddScanAddress, scanVars, TypeOK, ForkInv, BlockInv
<1>11. CASE Restart
  BY <1>11, RestartKeeps
<1>12. CASE UNCHANGED vars
  BY <1>12, StandKeeps DEF vars, scanVars, dbVars, TypeOK, ForkInv, BlockInv
<1> QED BY <1>1, <1>2, <1>3, <1>4, <1>5, <1>6, <1>7, <1>8, <1>9, <1>10, <1>11, <1>12 DEF Next, Scan

LEMMA Invariance == Spec => []ScannerInv
BY InitInv, NextInv, PTL DEF Spec

-----------------------------------------------------------------------------
(* Theorems *)

(* Every variable has its type.                                             *)
THEOREM TypesKept == Spec => []TypeOK
<1>1. ScannerInv => TypeOK
  BY DEF ScannerInv
<1> QED BY <1>1, Invariance, PTL

(* No output is a deposit twice, through rescans, restarts and              *)
(* reorganisations of any length, whatever indices the outputs are given.   *)
THEOREM StoredOnce == Spec => []NoneFoundTwice
<1>1. ScannerInv => NoneFoundTwice
  BY DEF ScannerInv, KeyInv, SameKey, NoneFoundTwice
<1> QED BY <1>1, Invariance, PTL

(* What it costs that IndexOf is the same for all outputs: of those of one  *)
(* transaction one is a deposit and the others never are, although          *)
(* DepositBkt is meant to hold a deposit under every tx:n (README.md:717).  *)
THEOREM OthersLost ==
    Spec => [](\A t \in Txs : \A o, p \in Pays[t] :
                  (\E r \in found : r.tx = t /\ r.vout = o[1]) /\ p[1] # o[1]
                      => ~\E r \in found : r.tx = t /\ r.vout = p[1])
<1>1. ASSUME ScannerInv, NEW q \in found, NEW r \in found, q.tx = r.tx
      PROVE  q = r
  BY <1>1 DEF ScannerInv, KeyInv, SameKey, IndexOf
<1>2. ScannerInv => \A t \in Txs : \A o, p \in Pays[t] :
                       (\E r \in found : r.tx = t /\ r.vout = o[1]) /\ p[1] # o[1]
                           => ~\E r \in found : r.tx = t /\ r.vout = p[1]
  BY <1>1
<1> QED BY <1>2, Invariance, PTL

(* A block that was passed hides no output to an address scanned then:      *)
(* there is a row under its key.                                            *)
THEOREM NoPaymentMissed == Spec => []PassedIsFound
<1>1. ScannerInv => PassedIsFound
  BY DEF ScannerInv
<1> QED BY <1>1, Invariance, PTL

(* Nothing is stored before its block has the height for it, and without a  *)
(* reorganisation every deposit is a payment on the chain, at the height    *)
(* recorded.                                                                *)
THEOREM FoundTrue == Spec => []FoundIsTrue
<1>1. ScannerInv => FoundIsTrue
  BY DEF ScannerInv, FoundIsTrue
<1> QED BY <1>1, Invariance, PTL

(* A scanner whose block is on the chain has scanned every block below it:  *)
(* what it was told earlier and what the chain is now agree up to there.    *)
THEOREM NoGap == Spec => []NoBlockSkipped
<1>1. ASSUME ScannerInv, step \in {"scan", "next"}, OnChain(block),
             NEW h \in InitialHeight..(Height(block) - 1)
      PROVE  \E p \in passed : p.block = BlockAt(h)
  <2>1. /\ Len(block) \in Nat /\ InitialHeight \in Nat \ {0} /\ h \in 1..Len(block)
        /\ h \in InitialHeight..(Len(block) - 1)
    BY <1>1, LenProperties, ScannerAssumption DEF ScannerInv, TypeOK, Block, Height
  <2>2. Passed(block, h)
    BY <1>1, <2>1 DEF ScannerInv, BlockInv
  <2>3. SubSeq(block, 1, h) = BlockAt(h)
    BY <1>1, <2>1, PrefixCut DEF ScannerInv, TypeOK, OnChain, IsPrefix, BlockAt
  <2> QED BY <2>2, <2>3 DEF Passed
<1>2. ScannerInv => NoBlockSkipped
  BY <1>1 DEF NoBlockSkipped
<1> QED BY <1>2, Invariance, PTL
=============================================================================
