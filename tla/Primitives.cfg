SPECIFICATION Spec
CONSTANTS
    Idle = Idle
    Lines <- MCLines
    Files <- MCFiles
    HashLine <- MCHashLine
    Algorithms = {"histogram", "myers"}
    WordBits = 8
    ChunkBlocks = 2
    Pattern <- MCPattern
    Key <- MCKey
    Nonce24 <- MCNonce24
    Blake2bLengths <- MCBlake2bLengths
    Blake3Lengths <- MCBlake3Lengths
    Sha512Lengths <- MCSha512Lengths
    StreamLengths <- MCStreamLengths
    TagKeys <- MCTagKeys
    TagMessages <- MCTagMessages
    Elements <- MCElements
    Secrets <- MCSecrets
    Seeds <- MCSeeds
    Texts <- MCTexts
    Unknowns <- MCUnknowns
    BoxTexts <- MCBoxTexts
    Nonces = {n1, n2}
INVARIANTS
    LinesAccounted
    Blake2bIsRFC7693
    Blake3HashesTheTree
    Sha512IsFIPS180
    KeystreamCounts
    TagIsPolynomial
    OnlySealedBoxesOpen
    FieldIsExact
    KeysAgree
    SignaturesVerify
