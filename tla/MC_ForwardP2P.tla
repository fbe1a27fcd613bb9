---------------------------- MODULE MC_ForwardP2P ----------------------------
(* Both transports of the point-to-point loop in one model.               *)
EXTENDS ForwardP2P

\* UDP with --shaper and --fragment and two packets from the peer; a TCP
\* client without the shaper and with three, so that one socket read can
\* leave a second complete packet in the stream residual.  The same TCP
\* client with --fragment is rejected by options_postprocess.
P2POptions ==
    {[proto |-> "udp", shaping |-> TRUE, fragment |-> TRUE, link_pkts |-> 2],
     [proto |-> "tcp-client", shaping |-> FALSE, fragment |-> FALSE,
      link_pkts |-> 3],
     [proto |-> "tcp-client", shaping |-> FALSE, fragment |-> TRUE,
      link_pkts |-> 3]}
==============================================================================
