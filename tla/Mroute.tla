------------------------------- MODULE Mroute -------------------------------
(***************************************************************************)
(* The address helpers of mroute.c, as operators over bounded inputs.  A   *)
(* buffer is a function from byte offsets 0..len-1 to byte values; bytes   *)
(* other than the first are tagged with their offset (1000 + offset), so   *)
(* an extracted address shows which bytes were copied.  An mroute_addr is  *)
(* [type, len, addr] with addr the copied bytes.  The operators are        *)
(* checked against reference definitions of the header layouts: IPv4      *)
(* (RFC 791) at offset 0 of a TUN packet, Ethernet at offset 0 of a TAP    *)
(* frame.  The single variable holds one input; TLC enumerates them all.   *)
(***************************************************************************)
EXTENDS Naturals, Sequences, Bitwise

CONSTANTS
    MaxLen,   \* longest buffer enumerated
    FirstBytes, \* values of the first byte of a buffer
    IPs,      \* IPv4 addresses of sockaddrs, as numbers
    Ports     \* ports of sockaddrs, as numbers

ASSUME MaxLen \in Nat /\ FirstBytes \subseteq 0..255

MR_MAX_ADDR_LEN == 18

\* struct layouts
ETHHDR_LEN  == 14           \* sizeof (struct openvpn_ethhdr)
ETH_DEST    == 0            \* offsetof (struct openvpn_ethhdr, dest)
ETH_SOURCE  == 6            \* offsetof (struct openvpn_ethhdr, source)
IPHDR_LEN   == 20           \* sizeof (struct openvpn_iphdr)
IP_SADDR    == 12           \* offsetof (struct openvpn_iphdr, saddr)
IP_DADDR    == 16           \* offsetof (struct openvpn_iphdr, daddr)

MR_ADDR_NONE  == 0
MR_ADDR_ETHER == 1
MR_ADDR_IPV4  == 2
MR_WITH_PORT  == 4
AF_INET       == 2

NoMroute == [type |-> MR_ADDR_NONE, len |-> 0, addr |-> <<>>]

\* The buffer of length n whose first byte is b0.
Buf(n, b0) == [i \in 0..(n - 1) |-> IF i = 0 THEN b0 ELSE 1000 + i]

\* memcpy of n bytes from offset off of buf.
Copy(buf, off, n) == [k \in 1..n |-> buf[off + k - 1]]

\* The bytes of sin_addr.s_addr and sin_port, stored in network order.
NetBytes(v, n) == [k \in 1..n |-> (v \div 2^(8 * (n - k))) % 256]
SinAddr(sa) == NetBytes(sa.ip, 4)
SinPort(sa) == NetBytes(sa.port, 2)

\* OPENVPN_IPH_GET_VER
OPENVPN_IPH_GET_VER(v) == shiftR(v, 4) & 15

\* A variant of mroute_extract_addr_from_packet with the TAP addresses
\* swapped.
TapSwapped(buf, len, dest) ==
    IF len >= ETHHDR_LEN
    THEN [res |-> "ok",
          a   |-> [type |-> MR_ADDR_ETHER, len |-> 6,
                   addr |-> Copy(buf, IF dest THEN ETH_SOURCE ELSE ETH_DEST, 6)]]
    ELSE [res |-> "fail", a |-> NoMroute]

\* mroute_extract_addr_from_packet on a DEV_TYPE_TAP frame.
ExtractTap(buf, len, dest) ==
    IF len >= ETHHDR_LEN
    THEN [res |-> "ok",
          a   |-> [type |-> MR_ADDR_ETHER, len |-> 6,
                   addr |-> Copy(buf, IF dest THEN ETH_DEST ELSE ETH_SOURCE, 6)]]
    ELSE [res |-> "fail", a |-> NoMroute]

\* mroute_extract_addr_from_packet on a DEV_TYPE_TUN packet: the version
\* nibble of the first byte, then, for IPv4, the address of the IP header
\* taken to start after an Ethernet header.  IPv6 is M_FATAL.
ExtractTun(buf, len, dest) ==
    LET ip == ETHHDR_LEN
    IN CASE len < ETHHDR_LEN + 1 -> [res |-> "fail", a |-> NoMroute]
         [] OPENVPN_IPH_GET_VER(buf[0]) = 4 /\ len >= ETHHDR_LEN + IPHDR_LEN ->
              [res |-> "ok",
               a  |-> [type |-> MR_ADDR_IPV4, len |-> 4,
                       addr |-> Copy(buf, ip + IF dest THEN IP_DADDR ELSE IP_SADDR, 4)]]
         [] OPENVPN_IPH_GET_VER(buf[0]) = 6 -> [res |-> "fatal", a |-> NoMroute]
         [] OTHER -> [res |-> "fail", a |-> NoMroute]

mroute_extract_addr_from_packet(buf, len, tunnel_type, dest) ==
    IF tunnel_type = "tun" THEN ExtractTun(buf, len, dest)
    ELSE ExtractTap(buf, len, dest)

\* A variant of mroute_extract_sockaddr_in that copies the port but
\* keeps len 4.
SockaddrShortLen(sa, use_port) ==
    CASE sa.family # AF_INET -> [res |-> "fail", a |-> NoMroute]
      [] use_port -> [res |-> "ok",
                      a  |-> [type |-> MR_ADDR_IPV4 + MR_WITH_PORT, len |-> 4,
                              addr |-> SinAddr(sa) \o SinPort(sa)]]
      [] OTHER    -> [res |-> "ok",
                      a  |-> [type |-> MR_ADDR_IPV4, len |-> 4, addr |-> SinAddr(sa)]]

\* mroute_extract_sockaddr_in: the address, and with use_port the port.
mroute_extract_sockaddr_in(sa, use_port) ==
    CASE sa.family # AF_INET -> [res |-> "fail", a |-> NoMroute]
      [] use_port -> [res |-> "ok",
                      a  |-> [type |-> MR_ADDR_IPV4 + MR_WITH_PORT, len |-> 6,
                              addr |-> SinAddr(sa) \o SinPort(sa)]]
      [] OTHER    -> [res |-> "ok",
                      a  |-> [type |-> MR_ADDR_IPV4, len |-> 4, addr |-> SinAddr(sa)]]

\* A variant of mroute_addr_equal that compares four bytes.
mroute_addr_equal_4(a1, a2) ==
    a1.type = a2.type /\ a1.len = a2.len /\ SubSeq(a1.addr, 1, 4) = SubSeq(a2.addr, 1, 4)

\* mroute_addr_equal: same type, same len, and memcmp of len bytes.
mroute_addr_equal(a1, a2) ==
    /\ a1.type = a2.type
    /\ a1.len = a2.len
    /\ SubSeq(a1.addr, 1, a1.len) = SubSeq(a2.addr, 1, a1.len)

-----------------------------------------------------------------------------
(* Reference definitions of the header layouts.                            *)

\* An IPv4 packet on a TUN device starts with its IP header.
RefTun(buf, len, dest) ==
    IF len >= IPHDR_LEN
    THEN [res |-> "ok",
          a   |-> [type |-> MR_ADDR_IPV4, len |-> 4,
                   addr |-> Copy(buf, IF dest THEN IP_DADDR ELSE IP_SADDR, 4)]]
    ELSE [res |-> "fail", a |-> NoMroute]

\* A TAP frame starts with its Ethernet header.
RefTap(buf, len, dest) ==
    IF len >= ETHHDR_LEN
    THEN [res |-> "ok",
          a   |-> [type |-> MR_ADDR_ETHER, len |-> 6,
                   addr |-> Copy(buf, IF dest THEN ETH_DEST ELSE ETH_SOURCE, 6)]]
    ELSE [res |-> "fail", a |-> NoMroute]

-----------------------------------------------------------------------------
Sockaddrs == [family : {AF_INET, 10}, ip : IPs, port : Ports]
PktInputs == [kind : {"pkt"}, len : 0..MaxLen, b0 : FirstBytes,
              tt : {"tun", "tap"}, dest : BOOLEAN]
SaInputs  == [kind : {"sa"}, s1 : Sockaddrs, s2 : Sockaddrs, use_port : BOOLEAN]

VARIABLE in     \* the input under test

Init == in \in PktInputs \cup SaInputs
Next == UNCHANGED in
Spec == Init /\ [][Next]_in

Extracted == mroute_extract_addr_from_packet(Buf(in.len, in.b0), in.len, in.tt, in.dest)
Sa1 == mroute_extract_sockaddr_in(in.s1, in.use_port)
Sa2 == mroute_extract_sockaddr_in(in.s2, in.use_port)

\* Every mroute_addr the helpers produce fits its declaration: len bytes
\* of addr were written, and len is at most MR_MAX_ADDR_LEN.
TypeOK ==
    \A r \in IF in.kind = "pkt" THEN {Extracted} ELSE {Sa1, Sa2} :
        /\ r.res \in {"ok", "fail", "fatal"}
        /\ r.a.len = Len(r.a.addr) /\ r.a.len <= MR_MAX_ADDR_LEN

\* mroute_extract_addr_from_packet on a TAP frame yields the destination
\* (or source) MAC address of its Ethernet header, and fails exactly on
\* frames shorter than the header.
TapExtractsEthernet ==
    in.kind = "pkt" /\ in.tt = "tap" =>
        Extracted = RefTap(Buf(in.len, in.b0), in.len, in.dest)

\* mroute_extract_addr_from_packet on an IPv4 packet from a TUN device
\* yields the destination (or source) address of its IP header, and fails
\* exactly on packets shorter than the header.
TunExtractsIPv4 ==
    in.kind = "pkt" /\ in.tt = "tun" /\ in.len > 0
      /\ OPENVPN_IPH_GET_VER(in.b0) = 4 =>
        Extracted = RefTun(Buf(in.len, in.b0), in.len, in.dest)

\* Two AF_INET sockaddrs extract to equal mroute_addrs exactly when they
\* have the same address and, with use_port, the same port: a client on a
\* second port of the same host is a different instance to
\* multi_get_instance_by_real_addr.
RealAddrEqualIffSameEndpoint ==
    in.kind = "sa" /\ Sa1.res = "ok" /\ Sa2.res = "ok" =>
        (mroute_addr_equal(Sa1.a, Sa2.a)
           <=> in.s1.ip = in.s2.ip /\ (in.use_port => in.s1.port = in.s2.port))
====
