\* An entity with an empty text or byte string.
CONSTANTS
  PublicSuffixes <- MCPublicSuffixes
  Creds = {c1, c2}
  Secrets = {s1, s2}
  Short = short
  None = None
  Invalid = Invalid
  Inline = 4
  Radix = 5
  HashLen = 1
  AaguidLen = 1
  FieldsOf <- MCFieldsOf
  Inputs <- CodecInputs
SPECIFICATION Spec
INVARIANT EmptyTextComesBack
CHECK_DEADLOCK FALSE
