-------------------------------- MODULE Pci --------------------------------
(***************************************************************************)
(* PCI configuration space as seed/saios/src/pci/mod.rs reads it, and the  *)
(* list of functions it caches.  The machine is a set of functions, each   *)
(* with the configuration registers that the drivers read.                 *)
(*                                                                         *)
(* A register is four bytes, the lowest first, so the shifts and masks of  *)
(* the code select bytes here.  A register that is not there reads as ones.*)
(***************************************************************************)
EXTENDS Integers, Sequences, FiniteSets, SequencesExt

\* The element of a singleton.
The(S) == CHOOSE x \in S : TRUE

Ones == <<255, 255, 255, 255>>
Zero == <<0, 0, 0, 0>>

\* Offset of BAR index.
BarOffset(index) == 16 + 4 * index

\* The dword a config_address selects: the low two bits of offset are dropped.
Aligned(offset) == offset - (offset % 4)

\* An address <<bus, device, function>> as config_address orders it.
config_address(a) == 65536 * a[1] + 2048 * a[2] + 256 * a[3]

read_u32(space, a, offset) ==
  IF a \in DOMAIN space /\ Aligned(offset) \in DOMAIN space[a]
  THEN space[a][Aligned(offset)]
  ELSE IF a \in DOMAIN space THEN Zero ELSE Ones

write_u32(space, a, offset, value) ==
  [space EXCEPT ![a] = (Aligned(offset) :> value) @@ @]

\* A 16-bit access selects the lower or the upper half of the dword.
Half(offset) == offset % 4 >= 2

read_u16(space, a, offset) ==
  LET v == read_u32(space, a, offset)
  IN  IF Half(offset) THEN <<v[3], v[4]>> ELSE <<v[1], v[2]>>

\* Read, replace the half, write back.
write_u16(space, a, offset, value) ==
  LET v == read_u32(space, a, offset)
  IN  write_u32(space, a, offset,
                IF Half(offset) THEN <<v[1], v[2]>> \o value ELSE value \o <<v[3], v[4]>>)

-----------------------------------------------------------------------------
(* Base address registers.  A base is the pair of its low and high words.  *)

NoBar == [index |-> 6, base |-> <<Zero, Zero>>, is_io |-> FALSE, is_64bit |-> FALSE]

MaskLow(v, unit) == <<v[1] - (v[1] % unit), v[2], v[3], v[4]>>

read_bar(space, a, index) ==
  LET low  == read_u32(space, a, BarOffset(index))
      io   == low[1] % 2 = 1
      wide == (low[1] \div 2) % 4 = 2
      base == IF io THEN <<MaskLow(low, 4), Zero>>
              ELSE <<MaskLow(low, 16),
                     IF wide THEN read_u32(space, a, BarOffset(index + 1)) ELSE Zero>>
  IN  IF \/ index >= 6
         \/ low \in {Zero, Ones}
         \/ ~io /\ wide /\ index >= 5
         \/ base = <<Zero, Zero>>
      THEN NoBar
      ELSE [index |-> index, base |-> base, is_io |-> io, is_64bit |-> ~io /\ wide]

-----------------------------------------------------------------------------
(* The cached list: every function whose vendor is not all ones, in the    *)
(* order of its address, read once.                                        *)

NewDatabase == [initialized |-> FALSE, devices |-> <<>>]

Identify(space, a) ==
  LET id    == read_u32(space, a, 0)
      class == read_u32(space, a, 8)
  IN  [at |-> a, vendor |-> <<id[1], id[2]>>, class |-> class[4],
       subclass |-> class[3], prog_if |-> class[2]]

Present(space) == {a \in DOMAIN space : SubSeq(read_u32(space, a, 0), 1, 2) # <<255, 255>>}

enumerate(space) ==
  LET order == SetToSortSeq(Present(space), LAMBDA a, b : config_address(a) < config_address(b))
  IN  [i \in 1 .. Len(order) |-> Identify(space, order[i])]

pci_init(db, space) ==
  IF db.initialized THEN db
  ELSE [initialized |-> TRUE, devices |-> enumerate(space)]
=============================================================================
