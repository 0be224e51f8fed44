CONSTANTS
  Addr = {a0, a1}
  Data = {d0, d1}
  Addr0 = a0
  Data0 = d0
  None = none
SPECIFICATION FairSpec
INVARIANTS TypeOK HandshakeIsOneWave
PROPERTIES RequestHeld DropsWereAnnounced ImplementsTransaction RequestIsServed
