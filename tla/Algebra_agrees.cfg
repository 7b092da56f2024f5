\* Limbs of four bits, three of them; the decimal radix keeps its value.
SPECIFICATION Spec
CONSTANTS
    LimbBits = 4
    MaxLimbs = 3
    Ten = 10
    Chunk = 10
PROPERTIES NumbersAgree FieldsAgree LinearAgrees BallsEnclose
