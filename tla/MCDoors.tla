------------------------------ MODULE MCDoors ------------------------------
EXTENDS Doors

\* What two connections may ask for: both pictures, a pad from another site, the
\* sound from something that is not a page, every kind of answer, and heads longer
\* than the look: a foreign origin that is not seen, an own one cut short, and a
\* handshake whose Upgrade is not seen.
MCRequests ==
    {Silent, Asks("video", "own"), Asks("video?half=1", "own"), Asks("input", "other"),
     Asks("sound", "absent"), Gets("clip", "other", "raw", "none"), Gets("clip", "own", "raw", "none"),
     Gets("formats", "absent", "raw", "none"), Gets("noart", "absent", "raw", "none"),
     Gets("home", "absent", "br", "none"), Gets("home", "own", "gzip", "current"),
     Peeked(Asks("video", "other"), "absent"), Peeked(Asks("input", "own"), "other"),
     Gets("input", "own", "raw", "old")}
=============================================================================
