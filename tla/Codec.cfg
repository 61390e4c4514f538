\* Every plaintext of up to 4 bytes and every secret of 3 to 5 bytes: padding and key derivation.
CONSTANTS
    Bytes = {0, 1, 2, 3}
    BlockSize = 3
    MaxLen = 4
    KeyLen = 4
    SecretBytes = {0, 1}
SPECIFICATION Spec
INVARIANT UnpadInvertsPad
INVARIANT IVIsReversedPrefix
