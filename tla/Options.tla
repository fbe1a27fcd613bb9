------------------------------ MODULE Options ------------------------------
(***************************************************************************)
(* Option processing of options.c, as operators over bounded inputs.       *)
(*                                                                         *)
(* struct options is abstracted to a record of the fields the models and   *)
(* the options consistency check (OCC) tell apart; every other field has   *)
(* its init_options default, so the checks on it pass.  options_postprocess *)
(* is the conjunction of its M_USAGE checks on these fields: an option set *)
(* it rejects never reaches a tunnel.  options_string is modelled by what  *)
(* it does, as the sequence of its comma-separated items; each item is a   *)
(* tuple <<name, value>>, never a string built character by character.     *)
(* The OCC of ssl.c compares the string a peer sends with the one the      *)
(* receiver expects; both are checked against the matching rules of the   *)
(* comment above options_string, over every pair of accepted option sets.  *)
(***************************************************************************)
EXTENDS Naturals, Sequences

\* init_options: the defaults of the fields modelled.  crypto stands for
\* shared_secret_file, tls_client and tls_server ("none", "secret",
\* "client", "server"); ifconfig for <<ifconfig_local,
\* ifconfig_remote_netmask>> (<<>> when --ifconfig is not given);
\* remote for remote_list # NULL; mtu for the frame sizes EXPANDED_SIZE and
\* PAYLOAD_SIZE, which follow from tun_mtu and link_mtu.
init_options ==
    [mode |-> "p2p", dev |-> "tun", proto |-> "udp", remote |-> FALSE,
     pull |-> FALSE, inetd |-> "none", crypto |-> "none",
     tls_auth |-> FALSE, key_method |-> 2, key_direction |-> "bidir",
     replay |-> TRUE, use_iv |-> TRUE, ifconfig |-> <<>>,
     fragment |-> FALSE, shaper |-> FALSE, comp_lzo |-> FALSE,
     tun_ipv6 |-> FALSE, mtu |-> 1500]

IsTls(o) == o.crypto \in {"client", "server"}

-----------------------------------------------------------------------------
(* options_postprocess: the M_USAGE checks, grouped as in the code.        *)

\* Sanity check on daemon/inetd modes (--local is not modelled).
InetdOk(o) ==
    /\ o.inetd # "none" => ~o.remote
    /\ o.inetd # "none" => o.proto # "tcp-client"
    /\ o.inetd = "nowait" => /\ o.proto = "tcp-server"
                             /\ IsTls(o)
                             /\ o.dev = "tap"

\* Check that protocol options make sense.
ProtoOk(o) ==
    /\ o.proto # "udp" => ~o.fragment
    /\ o.proto = "tcp-client" => o.remote

\* Check consistency of --mode server options, and that --pull is not
\* used with it.
ServerModeOk(o) ==
    o.mode = "server" =>
      /\ ~o.pull
      /\ o.proto \in {"udp", "tcp-server"}
      /\ o.crypto = "server"
      /\ ~o.remote
      /\ ~o.tun_ipv6
      /\ ~o.shaper
      /\ o.inetd = "none"

\* SSL/TLS mode sanity checks: at most one of --tls-server, --tls-client,
\* --secret (crypto holds one), and no TLS parameter in non-TLS mode.
TlsModeOk(o) ==
    ~IsTls(o) => /\ ~o.tls_auth
                 /\ o.key_method = 2

\* options_postprocess returns (no M_USAGE exit).
options_postprocess(o) ==
    InetdOk(o) /\ ProtoOk(o) /\ ServerModeOk(o) /\ TlsModeOk(o)

-----------------------------------------------------------------------------
(* The helpers options_string calls, from other files of OpenVPN.          *)

\* proto_remote: the protocol the other end uses.
proto_remote(p, remote) ==
    IF ~remote THEN p
    ELSE CASE p = "tcp-client" -> "tcp-server"
           [] p = "tcp-server" -> "tcp-client"
           [] OTHER            -> p

\* keydirection2ascii: NULL for a bidirectional key, else the direction,
\* inverted for the remote end.
keydirection2ascii(kd, remote) ==
    IF kd = "bidir" THEN <<>>
    ELSE <<IF ~remote THEN kd ELSE IF kd = "0" THEN "1" ELSE "0">>

\* ifconfig_options_string: a TUN endpoint pair is seen from the other
\* end with local and remote swapped; a TAP address and netmask describe
\* the shared subnet and are the same from both ends.
ifconfig_options_string(o, remote) ==
    IF o.ifconfig = <<>> THEN <<>>
    ELSE IF o.dev = "tun" /\ remote
         THEN <<<<o.ifconfig[2], o.ifconfig[1]>>>>
         ELSE <<o.ifconfig>>

PULL_DEFINED(o) == o.pull

-----------------------------------------------------------------------------
\* Zero or one item.
Item(cond, it) == IF cond THEN <<it>> ELSE <<>>

\* options_string: "V4", the tunnel options, then the crypto and SSL
\* options, each item added when the option is in force.
options_string(o, remote) ==
    LET ios == IF o.mode = "p2p" /\ ~PULL_DEFINED(o)
               THEN ifconfig_options_string(o, remote) ELSE <<>>
        kd  == keydirection2ascii(o.key_direction, remote)
        role == IF o.crypto = "client" THEN "tls-client" ELSE "tls-server"
        other == IF o.crypto = "client" THEN "tls-server" ELSE "tls-client"
    IN  <<<<"V4", "">>,
          <<"dev-type", o.dev>>,
          <<"link-mtu", o.mtu>>,
          <<"tun-mtu", o.mtu>>,
          <<"proto", proto_remote(o.proto, remote)>>>>
        \o Item(o.tun_ipv6, <<"tun-ipv6", "">>)
        \o [i \in DOMAIN ios |-> <<"ifconfig", ios[i]>>]
        \o Item(o.comp_lzo, <<"comp-lzo", "">>)
        \o Item(o.fragment, <<"mtu-dynamic", "">>)
        \o [i \in DOMAIN kd |-> <<"keydir", kd[i]>>]
        \o Item(o.crypto # "none", <<"cipher", "BF-CBC SHA1">>)
        \o Item(o.crypto = "secret", <<"secret", "">>)
        \o Item(o.crypto # "none" /\ ~o.replay, <<"no-replay", "">>)
        \o Item(o.crypto # "none" /\ ~o.use_iv, <<"no-iv", "">>)
        \o Item(IsTls(o) /\ o.tls_auth, <<"tls-auth", "">>)
        \o Item(IsTls(o) /\ o.key_method > 1, <<"key-method", o.key_method>>)
        \o Item(IsTls(o), <<IF remote THEN other ELSE role, "">>)

\* options_cmp_equal: strings of different versions (their first two
\* characters differ) are taken as equal; otherwise they must be equal.
options_cmp_equal(actual, expected) ==
    IF actual[1] # expected[1] THEN TRUE ELSE actual = expected

\* add_option: --secret file [direction] and --tls-auth file [direction]
\* are the only options that set key_direction.
KeyDirectionParsed(o) ==
    o.key_direction # "bidir" => o.crypto = "secret" \/ o.tls_auth

-----------------------------------------------------------------------------
(* The option sets enumerated: init_options with a few fields changed,     *)
(* in three groups so that every pair of one group can be compared.        *)

Addrs == {<<>>, <<"a1", "a2">>, <<"a2", "a1">>}

Accepted(S) == {o \in S : options_postprocess(o) /\ KeyDirectionParsed(o)}

TunnelSets ==
    Accepted({[init_options EXCEPT !.mode = m, !.dev = d, !.proto = p,
                                   !.remote = r, !.pull = pl, !.ifconfig = i,
                                   !.crypto = c] :
              m \in {"p2p", "server"}, d \in {"tun", "tap"},
              p \in {"udp", "tcp-client", "tcp-server"}, r \in BOOLEAN,
              pl \in BOOLEAN, i \in Addrs, c \in {"client", "server"}})

FeatureSets ==
    Accepted({[init_options EXCEPT !.proto = p, !.remote = TRUE,
                                   !.fragment = f, !.comp_lzo = z,
                                   !.tun_ipv6 = v, !.shaper = sh,
                                   !.inetd = n] :
              p \in {"udp", "tcp-client", "tcp-server"}, f \in BOOLEAN,
              z \in BOOLEAN, v \in BOOLEAN, sh \in BOOLEAN,
              n \in {"none", "wait"}})

CryptoSets ==
    Accepted({[init_options EXCEPT !.crypto = c, !.tls_auth = t,
                                   !.key_method = k, !.key_direction = kd,
                                   !.replay = rp, !.use_iv = iv] :
              c \in {"none", "secret", "client", "server"}, t \in BOOLEAN,
              k \in {1, 2}, kd \in {"bidir", "0", "1"}, rp \in BOOLEAN,
              iv \in BOOLEAN})

-----------------------------------------------------------------------------
(* The matching rules of the comment above options_string: the options a   *)
(* receiver a may expect of a sender b.                                    *)

MatchedProtos == {<<"udp", "udp">>, <<"tcp-client", "tcp-server">>,
                  <<"tcp-server", "tcp-client">>}
MatchedRoles  == {<<"client", "server">>, <<"server", "client">>,
                  <<"none", "none">>, <<"secret", "secret">>}
MatchedDirs   == {<<"bidir", "bidir">>, <<"0", "1">>, <<"1", "0">>}

\* --ifconfig is part of a point-to-point tunnel whose addresses are not
\* pulled; "--ifconfig x y" is matched with "--ifconfig y x" on a TUN
\* device, and a TAP subnet is the same on both ends.
Addressed(o) == o.mode = "p2p" /\ ~o.pull /\ o.ifconfig # <<>>
IfconfigMatched(a, b) ==
    /\ Addressed(a) = Addressed(b)
    /\ Addressed(a) =>
         \/ a.dev = "tap" /\ a.ifconfig = b.ifconfig
         \/ a.dev = "tun" /\ \A j \in 1..2 : a.ifconfig[j] = b.ifconfig[3 - j]

Compatible(a, b) ==
    /\ a.dev = b.dev /\ a.mtu = b.mtu /\ a.tun_ipv6 = b.tun_ipv6
    /\ <<a.proto, b.proto>> \in MatchedProtos
    /\ IfconfigMatched(a, b)
    /\ a.comp_lzo = b.comp_lzo /\ a.fragment = b.fragment
    /\ <<a.crypto, b.crypto>> \in MatchedRoles
    /\ a.crypto # "none" => a.replay = b.replay /\ a.use_iv = b.use_iv
    /\ IsTls(a) => a.tls_auth = b.tls_auth /\ a.key_method = b.key_method
    /\ <<a.key_direction, b.key_direction>> \in MatchedDirs

\* The OCC of ssl.c (key method 2) finds b's local options string equal to
\* the remote options string a computed for its peer exactly when the two
\* option sets match by the rules above, for every pair of option sets
\* options_postprocess accepts.
OccAgreesWithRules(S) ==
    \A a, b \in S :
        options_cmp_equal(options_string(b, FALSE), options_string(a, TRUE))
          <=> Compatible(a, b)

ASSUME OccAgreesWithRules(TunnelSets)
ASSUME OccAgreesWithRules(FeatureSets)
ASSUME OccAgreesWithRules(CryptoSets)
==============================================================================
