\* Every message of five bytes, from one byte to two and a half blocks of it.
CONSTANTS
  Bits = {bit}
  BLOCK = 2
  SIZE = 5
  Counters = {0, 1}
  AES <- MCAES
  Cipher <- MCCipher
  Decipher <- MCDecipher
  Garbage <- MCGarbage
SPECIFICATION Spec
INVARIANTS
  FrontPartReadable
  WholeBlocksReadable
