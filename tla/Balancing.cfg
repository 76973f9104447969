SPECIFICATION FairSpec
INVARIANTS TypeOK OneValidAtATime Branch1Output
PROPERTIES TransactionCompletes HandshakeSpec
