\* The cipher key keyAndIV returns, against spec 4.2.
CONSTANTS
    Bytes = {0, 1, 2, 3}
    BlockSize = 3
    MaxLen = 4
    KeyLen = 4
    SecretBytes = {0, 1}
SPECIFICATION Spec
INVARIANT KeyIsSecretPrefix
