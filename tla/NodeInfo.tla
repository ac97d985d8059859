------------------------------ MODULE NodeInfo ------------------------------
(***************************************************************************)
(* NodeInfo of src/src/node_info.rs and the BEP 42 identifiers of          *)
(* src/src/u160.rs: an id that fits an address starts with PREFIX bits of  *)
(* a checksum of the address and of a number r, ends with the bits of r,   *)
(* and is random in between.  The checksum is the crc32c crate; what it is *)
(* computed from (the masked octets of the address and r) is its argument. *)
(***************************************************************************)
EXTENDS U160, FiniteSets

CONSTANTS
    PREFIX,   \* bits fixed by the checksum: 21 in the program
    SUFFIX,   \* bits of r at the end: 3 in the program
    Crc(_, _) \* Crc(ip, r): the first bits of the checksum, a function on Prefix

Prefix == 0 .. (PREFIX - 1)

Suffix == (MaxBit - SUFFIX + 1) .. MaxBit

(* r, the low bits of an id, as the vector of its bits. *)
R == [Suffix -> {0, 1}]

ASSUME PrefixAssumption ==
    /\ PREFIX \in Nat /\ SUFFIX \in Nat /\ PREFIX + SUFFIX <= MaxBit + 1

(* The ids that from_ip_with_r can return. *)
FromIpWithR(ip, r) ==
    {id \in U160Type : /\ \A i \in Prefix : id[i] = Crc(ip, r)[i]
                       /\ \A i \in Suffix : id[i] = r[i]}

(* from_ip: r is random. *)
FromIp(ip) == UNION {FromIpWithR(ip, r) : r \in R}

(* validate: the id agrees with one made for the address with its own r,   *)
(* in the bits of the filter.                                              *)
Validate(n) ==
    \A test \in FromIpWithR(n.addr, [i \in Suffix |-> n.id[i]]) :
        \A i \in Prefix \cup Suffix : n.id[i] = test[i]
=============================================================================
