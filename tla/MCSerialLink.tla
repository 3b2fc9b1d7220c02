---------------------------- MODULE MCSerialLink ----------------------------
EXTENDS SerialLink

a == <<8>>
mc_Noise == {FEND, FESC, TFEND, a, NoFrag}

\* Three messages of different lengths, of the bytes that are escaped; the last
\* one is sent in fragments that the MTU allows and csp_kiss_rx has no room for.
mc_Different ==
    <<[data |-> <<FEND, FESC, a>>, mtu |-> 2], [data |-> <<TFEND, TFESC, a, a>>, mtu |-> 2],
      [data |-> <<a, a, a, FEND>>, mtu |-> 3]>>

\* Two messages of the same length.
mc_Alike == <<[data |-> <<a, a>>, mtu |-> 1], [data |-> <<FESC, FESC>>, mtu |-> 1]>>
=============================================================================
